---- MODULE Spec2Model ----
(***************************************************************************)
(* Workout logging workflow of the fitness-tracking front-end:             *)
(* WorkoutStartPage (routine materialization, set editing, validation and  *)
(* submission) and WorkoutDetailPage (volume, duration and grouping of a   *)
(* persisted workout).                                                     *)
(*                                                                         *)
(* Text typed into inputs is a sequence of one-character strings, so that  *)
(* Number(), String.prototype.trim() and truthiness are computed from the  *)
(* characters.  JavaScript numbers are records                             *)
(*     [kind |-> "finite" | "NaN" | "Infinity" | "-Infinity" | "undefined" *)
(*               | "null",  milli |-> the value in thousandths]            *)
(* (fixed point with three decimals; inputs carry at most three).          *)
(***************************************************************************)
EXTENDS Integers, Sequences, FiniteSets, TLC

VARIABLES
    routineId,        \* useParams().routineId (0: absent)
    pendingLoads,     \* routineService.getRoutine calls not yet settled
    routine,          \* useState<Routine | null>
    exercises,        \* useState<ExerciseWorkoutForm[]>
    isLoading,
    isSubmitting,
    error,
    formError,
    startedAt,        \* datetime-local text
    markCompleted,
    completedAt,      \* datetime-local text
    durationMinutes,  \* text
    notes,            \* text
    timerSeconds,
    isTimerRunning,
    inFlight,         \* the createWorkout call awaiting its response
    navigated,        \* navigate('/workouts') was called
    lastEvent,        \* history: the handler that ran last and what it saw
    workoutIdParam,   \* WorkoutDetailPage: useParams().id, a text
    pendingWorkoutLoads,  \* workoutService.getWorkout calls not yet settled
    workout,          \* WorkoutDetailPage: useState<Workout | null>
    detailIsLoading,  \* WorkoutDetailPage: isLoading
    detailError,      \* WorkoutDetailPage: error
    routineFormId,    \* RoutineFormPage: useParams().id, a text (empty: /routines/new)
    formData,         \* RoutineFormPage: name and description
    routineExercises, \* RoutineFormPage: useState<RoutineExerciseForm[]>
    isLoadingRoutine,
    routineIsSubmitting,  \* RoutineFormPage: isSubmitting
    routineError,     \* RoutineFormPage: error
    routineLoadPending,   \* routineService.getRoutine awaiting its response
    routineRequest,   \* the createRoutine or updateRoutine call awaiting its response
    routineNavigated, \* navigate('/routines') was called
    user,             \* AuthProvider: useState<User | null>
    authIsLoading,    \* AuthProvider: isLoading
    storedToken,      \* what authService.getToken() returns
    storedUser,       \* what authService.getUser() returns
    pendingAuth       \* getProfile, login and register calls not yet settled

formVars == <<exercises, startedAt, markCompleted, completedAt, durationMinutes, notes>>
loadVars == <<routineId, pendingLoads, routine, isLoading, error>>
timerVars == <<timerSeconds, isTimerRunning>>
submitVars == <<isSubmitting, formError, inFlight, navigated>>
detailVars == <<workoutIdParam, pendingWorkoutLoads, workout, detailIsLoading, detailError>>
routineFormVars == <<routineFormId, formData, routineExercises, isLoadingRoutine,
                     routineIsSubmitting, routineError, routineLoadPending,
                     routineRequest, routineNavigated>>
authVars == <<user, authIsLoading, storedToken, storedUser, pendingAuth>>
\* the state of the pages other than WorkoutStartPage
otherPages == <<detailVars, routineFormVars, authVars>>
vars == <<routineId, pendingLoads, routine, exercises, isLoading, isSubmitting, error,
          formError, startedAt, markCompleted, completedAt, durationMinutes, notes,
          timerSeconds, isTimerRunning, inFlight, navigated, lastEvent,
          workoutIdParam, pendingWorkoutLoads, workout, detailIsLoading, detailError,
          routineFormId, formData, routineExercises, isLoadingRoutine,
          routineIsSubmitting, routineError, routineLoadPending, routineRequest,
          routineNavigated, user, authIsLoading, storedToken, storedUser, pendingAuth>>

----
\* JavaScript values

\* numbers are kept in thousandths
Scale == 10 * 10 * 10

RECURSIVE Pow10(_)
Pow10(k) == IF k <= 0 THEN 1 ELSE 10 * Pow10(k - 1)

\* decimals the fixed-point representation keeps
FractionDigits == CHOOSE k \in 0..9 : Pow10(k) = Scale

Finite(m) == [kind |-> "finite", milli |-> m]
Int2Num(n) == Finite(n * Scale)
NaN == [kind |-> "NaN", milli |-> 0]
PosInfinity == [kind |-> "Infinity", milli |-> 0]
NegInfinity == [kind |-> "-Infinity", milli |-> 0]
Undefined == [kind |-> "undefined", milli |-> 0]
Null == [kind |-> "null", milli |-> 0]

\* a ?? b
Nullish(n) == n.kind \in {"undefined", "null"}
Coalesce(a, b) == IF Nullish(a) THEN b ELSE a

\* truthiness of a number, null or undefined
NumTruthy(n) ==
    CASE n.kind \in {"undefined", "null", "NaN"} -> FALSE
      [] n.kind = "finite" -> n.milli # 0
      [] OTHER -> TRUE

\* Number.isFinite
NumberIsFinite(n) == n.kind = "finite"

\* n < k for a number n and an integer k (false for NaN)
NumLess(n, k) ==
    CASE n.kind = "finite" -> n.milli < k * Scale
      [] n.kind = "-Infinity" -> TRUE
      [] OTHER -> FALSE

\* n <= k for a number n and an integer k (false for NaN)
NumLessEq(n, k) ==
    CASE n.kind = "finite" -> n.milli <= k * Scale
      [] n.kind = "-Infinity" -> TRUE
      [] OTHER -> FALSE

\* Math.round: floor(x + 0.5); NaN and the infinities are returned as they are
MathRound(n) ==
    IF n.kind = "finite"
    THEN Finite(((n.milli + (Scale \div 2)) \div Scale) * Scale)
    ELSE n

\* Math.round(n * k) for an integer k
MathRoundTimes(n, k) ==
    IF n.kind = "finite"
    THEN Finite((((n.milli * k) + (Scale \div 2)) \div Scale) * Scale)
    ELSE n

----
\* Text

DigitVal ==
    ("0" :> 0) @@ ("1" :> 1) @@ ("2" :> 2) @@ ("3" :> 3) @@ ("4" :> 4) @@
    ("5" :> 5) @@ ("6" :> 6) @@ ("7" :> 7) @@ ("8" :> 8) @@ ("9" :> 9)

IsDigit(c) == c \in DOMAIN DigitVal
IsWhiteSpace(c) == c \in {" ", "\t", "\n"}

RECURSIVE TrimStart(_)
TrimStart(s) ==
    IF s # <<>> /\ IsWhiteSpace(Head(s)) THEN TrimStart(Tail(s)) ELSE s

RECURSIVE TrimEnd(_)
TrimEnd(s) ==
    IF s # <<>> /\ IsWhiteSpace(s[Len(s)]) THEN TrimEnd(SubSeq(s, 1, Len(s) - 1)) ELSE s

\* String.prototype.trim
Trim(s) == TrimEnd(TrimStart(s))

\* a string is truthy when it is not empty
Truthy(s) == s # <<>>

RECURSIVE DigitsValue(_)
DigitsValue(ds) ==
    IF ds = <<>> THEN 0
    ELSE DigitsValue(SubSeq(ds, 1, Len(ds) - 1)) * 10 + DigitVal[ds[Len(ds)]]

AllDigits(ds) == \A i \in 1..Len(ds) : IsDigit(ds[i])

\* an unsigned decimal literal: digits, digits.digits, digits. or .digits
UnsignedDecimal(t) ==
    LET dots == {i \in 1..Len(t) : t[i] = "."} IN
    IF t = <<>> THEN NaN
    ELSE IF dots = {} THEN
        IF AllDigits(t) THEN Finite(DigitsValue(t) * Scale) ELSE NaN
    ELSE IF Cardinality(dots) > 1 THEN NaN
    ELSE
        LET p == CHOOSE i \in dots : TRUE
            ip == SubSeq(t, 1, p - 1)
            fp == SubSeq(t, p + 1, Len(t))
        IN  IF AllDigits(ip) /\ AllDigits(fp) /\ Len(ip) + Len(fp) > 0
               /\ Len(fp) <= FractionDigits
            THEN Finite(DigitsValue(ip) * Scale
                        + DigitsValue(fp) * Pow10(FractionDigits - Len(fp)))
            ELSE NaN

InfinityText == <<"I", "n", "f", "i", "n", "i", "t", "y">>

\* Number(text): white space is trimmed, the empty string is 0, then an optional
\* sign and a decimal literal or Infinity; anything else is NaN.  (Exponents and
\* 0x/0o/0b literals are not among the inputs modelled.)
Number(s) ==
    LET t == Trim(s) IN
    IF t = <<>> THEN Finite(0)
    ELSE
        LET signed == Head(t) \in {"+", "-"}
            neg == Head(t) = "-"
            body == IF signed THEN Tail(t) ELSE t
            mag == IF body = InfinityText THEN PosInfinity ELSE UnsignedDecimal(body)
        IN  CASE mag.kind = "finite" -> Finite(IF neg THEN 0 - mag.milli ELSE mag.milli)
              [] mag.kind = "Infinity" -> IF neg THEN NegInfinity ELSE PosInfinity
              [] OTHER -> NaN

RECURSIVE DigitsOf(_)
DigitsOf(n) ==
    LET d == CHOOSE c \in DOMAIN DigitVal : DigitVal[c] = n % 10 IN
    IF n < 10 THEN <<d>> ELSE Append(DigitsOf(n \div 10), d)

\* String(n) for an integer-valued number n
String(n) ==
    LET i == n.milli \div Scale IN
    IF i < 0 THEN <<"-">> \o DigitsOf(0 - i) ELSE DigitsOf(i)

\* the text of an absent optional string
UndefinedText == <<"undefined">>

----
\* Dates.  A datetime-local text is [form, day, hour, minute]: form "empty" is the
\* empty string, "malformed" a text new Date() cannot parse, "datetime" the text
\* YYYY-MM-DDTHH:mm of the given day (counted from a reference day) and local time.

EmptyDateText == [form |-> "empty", day |-> 0, hour |-> 0, minute |-> 0]
MalformedDateText == [form |-> "malformed", day |-> 0, hour |-> 0, minute |-> 0]
DateText(d, h, m) == [form |-> "datetime", day |-> d, hour |-> h, minute |-> m]

DateTextTruthy(t) == t.form # "empty"

\* Date.prototype.getTimezoneOffset(): UTC minus local time, in minutes
TimezoneOffset == 5 * 60

MsPerMinute == 60 * 1000
MsPerDay == 24 * 60 * MsPerMinute

\* new Date(text) of a datetime-local text, read as local time: a Date whose time
\* value is ms (milliseconds since the reference day, UTC) or NaN (valid = FALSE)
NewDate(t) ==
    IF t.form = "datetime"
    THEN [valid |-> TRUE,
          ms |-> (((t.day * 24 + t.hour) * 60) + t.minute + TimezoneOffset) * MsPerMinute]
    ELSE [valid |-> FALSE, ms |-> 0]

\* Number.isNaN(date.getTime())
DateIsNaN(d) == ~d.valid

\* Date.prototype.toISOString() of a valid Date: the UTC fields
ToISOString(d) ==
    [defined |-> TRUE,
     day |-> d.ms \div MsPerDay,
     hour |-> (d.ms % MsPerDay) \div (60 * MsPerMinute),
     minute |-> (d.ms % (60 * MsPerMinute)) \div MsPerMinute,
     second |-> (d.ms % MsPerMinute) \div 1000,
     millisecond |-> d.ms % 1000]

UndefinedISO ==
    [defined |-> FALSE, day |-> 0, hour |-> 0, minute |-> 0, second |-> 0, millisecond |-> 0]

\* new Date(iso) of a text produced by toISOString()
NewDateISO(iso) ==
    [valid |-> TRUE,
     ms |-> iso.day * MsPerDay + iso.hour * 60 * MsPerMinute + iso.minute * MsPerMinute
            + iso.second * 1000 + iso.millisecond]

\* formatDateTimeLocal(date): the local time of a valid Date, cut to the minute
formatDateTimeLocal(d) ==
    LET localMs == d.ms - TimezoneOffset * MsPerMinute IN
    DateText(localMs \div MsPerDay,
             (localMs % MsPerDay) \div (60 * MsPerMinute),
             (localMs % (60 * MsPerMinute)) \div MsPerMinute)

\* (ms / 1000) as a number: a count of milliseconds is that many thousandths of a second
MsToSeconds(ms) == Finite(ms \div (1000 \div Scale))

----
\* Routines (the Routine read of routineService.getRoutine) and the form built from them

NullRoutine == [id |-> 0, name |-> "", exercises |-> <<>>]

RoutineExercise(id, name, sets, min, max, technique, rest) ==
    [exerciseId |-> id, exerciseName |-> name, sets |-> sets, repRangeMin |-> min,
     repRangeMax |-> max, technique |-> technique, restTime |-> rest]

TECHNIQUE_OPTIONS == <<"normal", "dropset", "myo-reps", "failure", "rest-pause">>

RepeticionesText == <<" ", "r", "e", "p", "e", "t", "i", "c", "i", "o", "n", "e", "s">>

getTargetRange(exercise) ==
    IF NumTruthy(exercise.repRangeMin) /\ NumTruthy(exercise.repRangeMax)
    THEN IF exercise.repRangeMin = exercise.repRangeMax
         THEN String(exercise.repRangeMin) \o RepeticionesText
         ELSE String(exercise.repRangeMin) \o <<"-">> \o String(exercise.repRangeMax)
              \o RepeticionesText
    ELSE IF NumTruthy(exercise.repRangeMin)
    THEN <<">=", " ">> \o String(exercise.repRangeMin) \o RepeticionesText
    ELSE IF NumTruthy(exercise.repRangeMax)
    THEN <<"<=", " ">> \o String(exercise.repRangeMax) \o RepeticionesText
    ELSE UndefinedText

\* a list one element short of the planned length
ArrayFromLength_OneShort(n) == IF n < 1 THEN 0 ELSE n - 1

\* Array.from({ length: n }, ...) has no element when n is not positive
ArrayFromLength(n) == IF n < 0 THEN 0 ELSE n

\* the planned set with the default of handleAddSet: repRangeMax is not consulted
MaterializedSet_SkipsMax(exercise) ==
    [weight |-> <<>>,
     reps |-> String(Coalesce(exercise.repRangeMin, Int2Num(10))),
     technique |-> exercise.technique,
     restTime |-> IF ~Nullish(exercise.restTime) THEN String(exercise.restTime) ELSE <<>>]

\* the set every planned set of a routine exercise starts as
MaterializedSet(exercise) ==
    [weight |-> <<>>,
     reps |-> String(Coalesce(Coalesce(exercise.repRangeMin, exercise.repRangeMax),
                              Int2Num(10))),
     technique |-> exercise.technique,
     restTime |-> IF ~Nullish(exercise.restTime) THEN String(exercise.restTime) ELSE <<>>]

\* data.exercises.map(...) of loadRoutine
MaterializeExercises(data) ==
    [i \in 1..Len(data.exercises) |->
        LET exercise == data.exercises[i] IN
        [exerciseId |-> exercise.exerciseId,
         exerciseName |-> exercise.exerciseName,
         targetRange |-> getTargetRange(exercise),
         sets |-> [k \in 1..ArrayFromLength(exercise.sets) |-> MaterializedSet(exercise)]]]

\* the page renders the form only past the loading, error and no-routine returns
FormRendered == ~isLoading /\ error = "" /\ routine # NullRoutine /\ ~navigated

Event(op, ei, si) == [op |-> op, exerciseIndex |-> ei, setIndex |-> si, message |-> ""]

----
\* Loading the routine

LoadRoutineResolve(data) ==
    /\ ~navigated
    /\ data.id \in pendingLoads
    /\ pendingLoads' = pendingLoads \ {data.id}
    /\ routine' = data
    /\ exercises' = MaterializeExercises(data)
    /\ error' = ""
    /\ isLoading' = FALSE
    /\ lastEvent' = Event("loadRoutineResolved", 0, 0)
    /\ UNCHANGED <<routineId, startedAt, markCompleted, completedAt, durationMinutes, notes>>
    /\ UNCHANGED <<timerVars, otherPages, submitVars>>

LoadRoutineFallbackMessage == "No se pudo cargar la rutina seleccionada."

LoadRoutineReject(id, message) ==
    /\ ~navigated
    /\ id \in pendingLoads
    /\ pendingLoads' = pendingLoads \ {id}
    /\ error' = IF message # "" THEN message ELSE LoadRoutineFallbackMessage
    /\ isLoading' = FALSE
    /\ lastEvent' = Event("loadRoutineRejected", 0, 0)
    /\ UNCHANGED <<routineId, routine, formVars, timerVars, otherPages, submitVars>>

\* The route's routineId changes while the page stays mounted: the effect runs
\* again.  Nothing cancels the load of the earlier id, and routine, exercises and
\* the rest of the form are left as they are.
routineIdChange(id) ==
    /\ ~navigated
    /\ id # routineId
    /\ id \notin pendingLoads
    /\ routineId' = id
    /\ IF id = 0
       THEN /\ error' = "No se proporcionó una rutina válida."
            /\ isLoading' = FALSE
            /\ UNCHANGED pendingLoads
       ELSE /\ isLoading' = TRUE
            /\ pendingLoads' = pendingLoads \cup {id}
            /\ UNCHANGED error
    /\ lastEvent' = Event("routineIdChange", 0, 0)
    /\ UNCHANGED <<routine, formVars, timerVars, otherPages, submitVars>>

----
\* Editing the sets.  Indices count from 1 here and from 0 in the code.

\* the change applied to every set of the exercise instead of the one at setIndex
SetFieldChange_EverySet(prev, exerciseIndex, setIndex, field, value) ==
    [exIdx \in 1..Len(prev) |->
        IF exIdx # exerciseIndex THEN prev[exIdx]
        ELSE [prev[exIdx] EXCEPT !.sets =
                [sIdx \in 1..Len(prev[exIdx].sets) |->
                    [prev[exIdx].sets[sIdx] EXCEPT ![field] = value]]]]

SetFieldChange(prev, exerciseIndex, setIndex, field, value) ==
    [exIdx \in 1..Len(prev) |->
        IF exIdx # exerciseIndex THEN prev[exIdx]
        ELSE [prev[exIdx] EXCEPT !.sets =
                [sIdx \in 1..Len(prev[exIdx].sets) |->
                    IF sIdx # setIndex THEN prev[exIdx].sets[sIdx]
                    ELSE [prev[exIdx].sets[sIdx] EXCEPT ![field] = value]]]]

handleSetFieldChange(exerciseIndex, setIndex, field, value) ==
    /\ FormRendered
    /\ exercises' = SetFieldChange(exercises, exerciseIndex, setIndex, field, value)
    /\ lastEvent' = Event("setFieldChange", exerciseIndex, setIndex)
    /\ UNCHANGED <<startedAt, markCompleted, completedAt, durationMinutes, notes>>
    /\ UNCHANGED <<loadVars, timerVars, otherPages, submitVars>>

\* routine?.exercises[exIdx], undefined when there is none
RoutineExerciseAt(exIdx) ==
    IF routine # NullRoutine /\ exIdx \in 1..Len(routine.exercises)
    THEN routine.exercises[exIdx]
    ELSE RoutineExercise(0, "", 0, Undefined, Undefined, "undefined", Undefined)

\* the new set as a copy of the last one, weight included
AddedSet_CopiesWeight(exercise, exIdx) ==
    IF Len(exercise.sets) > 0 THEN exercise.sets[Len(exercise.sets)]
    ELSE [weight |-> <<>>, reps |-> <<"1", "0">>, technique |-> "normal", restTime |-> <<>>]

\* the set handleAddSet appends to an exercise
AddedSet(exercise, exIdx) ==
    LET hasLast == Len(exercise.sets) > 0
        lastSet == exercise.sets[Len(exercise.sets)]
        planned == RoutineExerciseAt(exIdx)
    IN  [weight |-> <<>>,
         reps |-> IF hasLast THEN lastSet.reps
                  ELSE String(Coalesce(planned.repRangeMin, Int2Num(10))),
         technique |-> IF hasLast THEN lastSet.technique
                       ELSE IF planned.technique = "undefined" THEN "normal"
                       ELSE planned.technique,
         restTime |-> IF hasLast THEN lastSet.restTime
                      ELSE IF ~Nullish(planned.restTime) THEN String(planned.restTime)
                      ELSE <<>>]

AddSet(prev, exerciseIndex) ==
    [exIdx \in 1..Len(prev) |->
        IF exIdx # exerciseIndex THEN prev[exIdx]
        ELSE [prev[exIdx] EXCEPT !.sets = Append(prev[exIdx].sets, AddedSet(prev[exIdx], exIdx))]]

\* exercise.sets.filter((_, idx) => idx !== setIndex)
FilterOut(sets, setIndex) ==
    IF setIndex \in 1..Len(sets)
    THEN SubSeq(sets, 1, setIndex - 1) \o SubSeq(sets, setIndex + 1, Len(sets))
    ELSE sets

\* the removal without its last-set guard
RemoveSet_Unguarded(prev, exerciseIndex, setIndex) ==
    [exIdx \in 1..Len(prev) |->
        IF exIdx # exerciseIndex THEN prev[exIdx]
        ELSE [prev[exIdx] EXCEPT !.sets = FilterOut(prev[exIdx].sets, setIndex)]]

RemoveSet(prev, exerciseIndex, setIndex) ==
    [exIdx \in 1..Len(prev) |->
        IF exIdx # exerciseIndex THEN prev[exIdx]
        ELSE IF Len(prev[exIdx].sets) <= 1 THEN prev[exIdx]
        ELSE [prev[exIdx] EXCEPT !.sets = FilterOut(prev[exIdx].sets, setIndex)]]

\* sets the form may grow to, over all its exercises
MaxSets == 2

RECURSIVE TotalSets(_)
TotalSets(exs) == IF exs = <<>> THEN 0 ELSE Len(Head(exs).sets) + TotalSets(Tail(exs))

handleAddSet(exerciseIndex) ==
    /\ FormRendered
    /\ TotalSets(exercises) < MaxSets
    /\ exercises' = AddSet(exercises, exerciseIndex)
    /\ lastEvent' = Event("addSet", exerciseIndex, 0)
    /\ UNCHANGED <<startedAt, markCompleted, completedAt, durationMinutes, notes>>
    /\ UNCHANGED <<loadVars, timerVars, otherPages, submitVars>>

handleRemoveSet(exerciseIndex, setIndex) ==
    /\ FormRendered
    /\ exercises' = RemoveSet(exercises, exerciseIndex, setIndex)
    /\ lastEvent' = Event("removeSet", exerciseIndex, setIndex)
    /\ UNCHANGED <<startedAt, markCompleted, completedAt, durationMinutes, notes>>
    /\ UNCHANGED <<loadVars, timerVars, otherPages, submitVars>>

----
\* The session fields

\* the handler without its else branch: un-marking leaves the text in the field
handleMarkCompleted_KeepsText(checked, now) ==
    /\ FormRendered
    /\ markCompleted' = checked
    /\ completedAt' = IF checked /\ ~DateTextTruthy(completedAt)
                      THEN formatDateTimeLocal(now)
                      ELSE completedAt
    /\ lastEvent' = Event("markCompleted", 0, 0)
    /\ UNCHANGED <<exercises, startedAt, durationMinutes, notes>>
    /\ UNCHANGED <<loadVars, timerVars, otherPages, submitVars>>

\* handleMarkCompleted(checked); now is the Date of new Date()
handleMarkCompleted(checked, now) ==
    /\ FormRendered
    /\ markCompleted' = checked
    /\ completedAt' = IF checked
                      THEN IF DateTextTruthy(completedAt) THEN completedAt
                           ELSE formatDateTimeLocal(now)
                      ELSE EmptyDateText
    /\ lastEvent' = Event("markCompleted", 0, 0)
    /\ UNCHANGED <<exercises, startedAt, durationMinutes, notes>>
    /\ UNCHANGED <<loadVars, timerVars, otherPages, submitVars>>

setStartedAt(value) ==
    /\ FormRendered
    /\ startedAt' = value
    /\ lastEvent' = Event("setStartedAt", 0, 0)
    /\ UNCHANGED <<exercises, markCompleted, completedAt, durationMinutes, notes>>
    /\ UNCHANGED <<loadVars, timerVars, otherPages, submitVars>>

\* the completion input is disabled unless markCompleted
setCompletedAt(value) ==
    /\ FormRendered
    /\ markCompleted
    /\ completedAt' = value
    /\ lastEvent' = Event("setCompletedAt", 0, 0)
    /\ UNCHANGED <<exercises, startedAt, markCompleted, durationMinutes, notes>>
    /\ UNCHANGED <<loadVars, timerVars, otherPages, submitVars>>

setDurationMinutes(value) ==
    /\ FormRendered
    /\ durationMinutes' = value
    /\ lastEvent' = Event("setDurationMinutes", 0, 0)
    /\ UNCHANGED <<exercises, startedAt, markCompleted, completedAt, notes>>
    /\ UNCHANGED <<loadVars, timerVars, otherPages, submitVars>>

setNotes(value) ==
    /\ FormRendered
    /\ notes' = value
    /\ lastEvent' = Event("setNotes", 0, 0)
    /\ UNCHANGED <<exercises, startedAt, markCompleted, completedAt, durationMinutes>>
    /\ UNCHANGED <<loadVars, timerVars, otherPages, submitVars>>

----
\* The rest timer

\* seconds the timer is let run to
MaxTimerSeconds == 3

\* the interval callback, set while isTimerRunning and cleared by the effect's cleanup
\* (when isTimerRunning changes and when the page unmounts)
timerTick ==
    /\ isTimerRunning
    /\ ~navigated
    /\ timerSeconds < MaxTimerSeconds
    /\ timerSeconds' = timerSeconds + 1
    /\ lastEvent' = Event("timerTick", 0, 0)
    /\ UNCHANGED <<isTimerRunning, loadVars, formVars, submitVars, otherPages>>

\* the start button is disabled while the timer runs
handleTimerStart ==
    /\ FormRendered
    /\ ~isTimerRunning
    /\ isTimerRunning' = TRUE
    /\ lastEvent' = Event("timerStart", 0, 0)
    /\ UNCHANGED <<timerSeconds, loadVars, formVars, submitVars, otherPages>>

\* the pause that also clears the seconds, as the reset does
handleTimerPause_Clears ==
    /\ FormRendered
    /\ isTimerRunning
    /\ isTimerRunning' = FALSE
    /\ timerSeconds' = 0
    /\ lastEvent' = Event("timerPause", 0, 0)
    /\ UNCHANGED <<loadVars, formVars, submitVars, otherPages>>

\* the pause button is disabled unless the timer runs
handleTimerPause ==
    /\ FormRendered
    /\ isTimerRunning
    /\ isTimerRunning' = FALSE
    /\ lastEvent' = Event("timerPause", 0, 0)
    /\ UNCHANGED <<timerSeconds, loadVars, formVars, submitVars, otherPages>>

handleTimerReset ==
    /\ FormRendered
    /\ isTimerRunning' = FALSE
    /\ timerSeconds' = 0
    /\ lastEvent' = Event("timerReset", 0, 0)
    /\ UNCHANGED <<loadVars, formVars, submitVars, otherPages>>

----
\* handleSubmit: validation, payload assembly and the create call

\* the reps check as "not positive" instead of "below one"
RepsRejected_BelowOneAllowed(repsValue) == ~NumberIsFinite(repsValue) \/ NumLessEq(repsValue, 0)

RepsRejected(repsValue) == ~NumberIsFinite(repsValue) \/ NumLess(repsValue, 1)

\* the weight check left out
WeightRejected_Unchecked(weightValue) == FALSE

WeightRejected(weightValue) == weightValue # Undefined /\ ~NumberIsFinite(weightValue)

RestRejected(restValue) == restValue # Undefined /\ ~NumberIsFinite(restValue)

SetWeightValue(set) == IF set.weight = <<>> THEN Undefined ELSE Number(set.weight)
SetRestValue(set) == IF set.restTime = <<>> THEN Undefined ELSE Number(set.restTime)

\* the checks of one set with the weight looked at before the reps
SetError_WeightFirst(set) ==
    IF WeightRejected(SetWeightValue(set)) THEN "El peso debe ser un número válido."
    ELSE IF RepsRejected(Number(set.reps)) THEN "Cada serie debe tener al menos 1 repetición."
    ELSE IF RestRejected(SetRestValue(set))
    THEN "El tiempo de descanso debe ser un número válido."
    ELSE ""

\* the message the checks of one set end with ("" when it passes them)
SetError(set) ==
    IF RepsRejected(Number(set.reps)) THEN "Cada serie debe tener al menos 1 repetición."
    ELSE IF WeightRejected(SetWeightValue(set)) THEN "El peso debe ser un número válido."
    ELSE IF RestRejected(SetRestValue(set))
    THEN "El tiempo de descanso debe ser un número válido."
    ELSE ""

\* the pushed element numbered by the loop index, without its + 1
FlattenedSet_ZeroBased(exercise, index) ==
    LET set == exercise.sets[index] IN
    [exerciseId |-> exercise.exerciseId,
     exerciseName |-> exercise.exerciseName,
     setNumber |-> index - 1,
     weight |-> SetWeightValue(set),
     reps |-> MathRound(Number(set.reps)),
     technique |-> set.technique,
     restTime |-> IF SetRestValue(set) # Undefined THEN MathRound(SetRestValue(set))
                  ELSE Undefined]

\* the element flattenedSets.push(...) adds for the set at position index of exercise
FlattenedSet(exercise, index) ==
    LET set == exercise.sets[index] IN
    [exerciseId |-> exercise.exerciseId,
     exerciseName |-> exercise.exerciseName,
     setNumber |-> index,
     weight |-> SetWeightValue(set),
     reps |-> MathRound(Number(set.reps)),
     technique |-> set.technique,
     restTime |-> IF SetRestValue(set) # Undefined THEN MathRound(SetRestValue(set))
                  ELSE Undefined]

\* the two nested loops: every set of every exercise, in order
RECURSIVE FlattenSets(_)
FlattenSets(exs) ==
    IF exs = <<>> THEN <<>>
    ELSE [index \in 1..Len(Head(exs).sets) |-> FlattenedSet(Head(exs), index)]
         \o FlattenSets(Tail(exs))

RECURSIVE FormSets(_)
FormSets(exs) == IF exs = <<>> THEN <<>> ELSE Head(exs).sets \o FormSets(Tail(exs))

\* the loops return at the first set that fails a check
SetsError(exs) ==
    LET all == FormSets(exs)
        bad == {i \in 1..Len(all) : SetError(all[i]) # ""}
    IN  IF bad = {} THEN ""
        ELSE SetError(all[CHOOSE i \in bad : \A j \in bad : i <= j])

Outcome(err, value) == [error |-> err, value |-> value]

\* completedAtISO without the checks that completion does not precede the start
CompletedAtOutcome_NoOrderCheck(marked, completedText, startedAtDate) ==
    IF marked /\ DateTextTruthy(completedText)
    THEN IF DateIsNaN(NewDate(completedText))
         THEN Outcome("La fecha de finalización no es válida.", UndefinedISO)
         ELSE Outcome("", ToISOString(NewDate(completedText)))
    ELSE Outcome("", UndefinedISO)

\* completedAtISO and the two checks that completion does not precede the start
CompletedAtOutcome(marked, completedText, startedAtDate) ==
    LET completedAtDate == NewDate(completedText)
        startedAtISO == ToISOString(startedAtDate)
    IN  IF marked /\ DateTextTruthy(completedText)
        THEN IF DateIsNaN(completedAtDate)
             THEN Outcome("La fecha de finalización no es válida.", UndefinedISO)
             ELSE IF completedAtDate.ms < startedAtDate.ms
             THEN Outcome("La fecha de finalización no puede ser anterior al inicio.",
                          UndefinedISO)
             ELSE IF NewDateISO(ToISOString(completedAtDate)).ms < NewDateISO(startedAtISO).ms
             THEN Outcome("La fecha de finalización no puede ser anterior al inicio.",
                          UndefinedISO)
             ELSE Outcome("", ToISOString(completedAtDate))
        ELSE Outcome("", UndefinedISO)

\* durationSeconds with the two sources in the other order: the computed time first
DurationOutcome_ComputedFirst(minutesText, marked, completedAtISO, startedAtISO) ==
    LET minutesValue == Number(minutesText)
        diffSeconds == MathRound(MsToSeconds(NewDateISO(completedAtISO).ms
                                             - NewDateISO(startedAtISO).ms))
    IN  IF marked /\ completedAtISO.defined
        THEN IF ~NumLessEq(diffSeconds, 0) THEN Outcome("", diffSeconds)
             ELSE Outcome("", Undefined)
        ELSE IF Truthy(Trim(minutesText))
        THEN IF ~NumberIsFinite(minutesValue) \/ NumLessEq(minutesValue, 0)
             THEN Outcome("La duración debe ser un número positivo en minutos.", Undefined)
             ELSE Outcome("", MathRoundTimes(minutesValue, 60))
        ELSE Outcome("", Undefined)

\* durationSeconds: the minutes typed, else the time between start and completion
DurationOutcome(minutesText, marked, completedAtISO, startedAtISO) ==
    LET minutesValue == Number(minutesText)
        diffSeconds == MathRound(MsToSeconds(NewDateISO(completedAtISO).ms
                                             - NewDateISO(startedAtISO).ms))
    IN  IF Truthy(Trim(minutesText))
        THEN IF ~NumberIsFinite(minutesValue) \/ NumLessEq(minutesValue, 0)
             THEN Outcome("La duración debe ser un número positivo en minutos.", Undefined)
             ELSE Outcome("", MathRoundTimes(minutesValue, 60))
        ELSE IF marked /\ completedAtISO.defined
        THEN IF ~NumLessEq(diffSeconds, 0) THEN Outcome("", diffSeconds)
             ELSE Outcome("", Undefined)
        ELSE Outcome("", Undefined)

\* notes || undefined: the text as typed
NotesValue_AsTyped(text) == IF Truthy(text) THEN text ELSE UndefinedText

NotesValue(text) == IF Truthy(Trim(text)) THEN Trim(text) ELSE UndefinedText

NoPayload ==
    [routineId |-> 0, routineName |-> "", startedAt |-> UndefinedISO,
     completedAt |-> UndefinedISO, duration |-> Undefined, notes |-> UndefinedText,
     sets |-> <<>>]

\* what handleSubmit ends with on the state it sees: the message it shows, or ""
\* and the payload it passes to workoutService.createWorkout
SubmitOutcome ==
    LET flattenedSets == FlattenSets(exercises)
        startedAtDate == NewDate(startedAt)
        completed == CompletedAtOutcome(markCompleted, completedAt, startedAtDate)
        startedAtISO == ToISOString(startedAtDate)
        duration == DurationOutcome(durationMinutes, markCompleted, completed.value,
                                    startedAtISO)
    IN  IF routine = NullRoutine
        THEN Outcome("No se pudo identificar la rutina seleccionada.", NoPayload)
        ELSE IF ~DateTextTruthy(startedAt)
        THEN Outcome("Selecciona la fecha y hora de inicio del entrenamiento.", NoPayload)
        ELSE IF Len(exercises) = 0
        THEN Outcome("La rutina no tiene ejercicios configurados.", NoPayload)
        ELSE IF SetsError(exercises) # ""
        THEN Outcome(SetsError(exercises), NoPayload)
        ELSE IF Len(flattenedSets) = 0
        THEN Outcome("Registra al menos una serie antes de guardar el entrenamiento.",
                     NoPayload)
        ELSE IF DateIsNaN(startedAtDate)
        THEN Outcome("La fecha de inicio no es válida.", NoPayload)
        ELSE IF completed.error # ""
        THEN Outcome(completed.error, NoPayload)
        ELSE IF duration.error # ""
        THEN Outcome(duration.error, NoPayload)
        ELSE Outcome("",
                [routineId |-> routine.id,
                 routineName |-> routine.name,
                 startedAt |-> startedAtISO,
                 completedAt |-> completed.value,
                 duration |-> duration.value,
                 notes |-> NotesValue(notes),
                 sets |-> flattenedSets])

\* the form a submit reads
FormSnapshot ==
    [routine |-> routine, exercises |-> exercises, startedAt |-> startedAt,
     markCompleted |-> markCompleted, completedAt |-> completedAt,
     durationMinutes |-> durationMinutes, notes |-> notes]

NoForm ==
    [routine |-> NullRoutine, exercises |-> <<>>, startedAt |-> EmptyDateText,
     markCompleted |-> FALSE, completedAt |-> EmptyDateText,
     durationMinutes |-> <<>>, notes |-> <<>>]

NoRequest == [pending |-> FALSE, payload |-> NoPayload, form |-> NoForm]

\* the handler reached while a request is pending, as if the button stayed enabled
handleSubmit_WhileSubmitting ==
    /\ FormRendered
    /\ IF SubmitOutcome.error # ""
       THEN /\ formError' = SubmitOutcome.error
            /\ UNCHANGED <<isSubmitting, inFlight>>
       ELSE /\ isSubmitting' = TRUE
            /\ formError' = ""
            /\ inFlight' = [pending |-> TRUE, payload |-> SubmitOutcome.value,
                            form |-> FormSnapshot]
    /\ lastEvent' = Event("submit", 0, 0)
    /\ UNCHANGED <<navigated, formVars, loadVars, timerVars, otherPages>>

\* render: the ErrorMessage of the page, returned in place of everything else
RoutineErrorShown == ~isLoading /\ error # ""

\* The form's onSubmit handler.  The submit button is disabled while isSubmitting.
\* The handler reads whatever texts the fields hold: the min and step attributes of
\* the inputs are hints to the browser, and no line of the handler relies on them.
handleSubmit ==
    /\ FormRendered
    /\ ~isSubmitting
    /\ IF SubmitOutcome.error # ""
       THEN /\ formError' = SubmitOutcome.error
            /\ UNCHANGED <<isSubmitting, inFlight>>
       ELSE /\ isSubmitting' = TRUE
            /\ formError' = ""
            /\ inFlight' = [pending |-> TRUE, payload |-> SubmitOutcome.value,
                            form |-> FormSnapshot]
    /\ lastEvent' = Event("submit", 0, 0)
    /\ UNCHANGED <<navigated, formVars, loadVars, timerVars, otherPages>>

\* await workoutService.createWorkout(payload) returns: navigate('/workouts')
createWorkoutResolve ==
    /\ inFlight.pending
    /\ navigated' = TRUE
    /\ isSubmitting' = FALSE
    /\ inFlight' = NoRequest
    /\ lastEvent' = Event("createWorkoutResolved", 0, 0)
    /\ UNCHANGED <<formError, formVars, loadVars, timerVars, otherPages>>

CreateWorkoutFallbackMessage == "No se pudo guardar el entrenamiento."

\* the catch block without its finally: isSubmitting stays set
createWorkoutReject_NoFinally(message) ==
    /\ inFlight.pending
    /\ formError' = IF message # "" THEN message ELSE CreateWorkoutFallbackMessage
    /\ inFlight' = NoRequest
    /\ lastEvent' = [Event("createWorkoutRejected", 0, 0) EXCEPT !.message = message]
    /\ UNCHANGED <<isSubmitting, navigated, formVars, loadVars, timerVars, otherPages>>

\* the catch block sending the payload again by itself
createWorkoutReject_Retries(message) ==
    /\ inFlight.pending
    /\ formError' = IF message # "" THEN message ELSE CreateWorkoutFallbackMessage
    /\ lastEvent' = [Event("createWorkoutRejected", 0, 0) EXCEPT !.message = message]
    /\ UNCHANGED <<isSubmitting, inFlight, navigated, formVars, loadVars, timerVars,
                   otherPages>>

\* await workoutService.createWorkout(payload) throws; message is
\* err?.response?.data?.message, "" when the service gave none
createWorkoutReject(message) ==
    /\ inFlight.pending
    /\ formError' = IF message # "" THEN message ELSE CreateWorkoutFallbackMessage
    /\ isSubmitting' = FALSE
    /\ inFlight' = NoRequest
    /\ lastEvent' = [Event("createWorkoutRejected", 0, 0) EXCEPT !.message = message]
    /\ UNCHANGED <<navigated, formVars, loadVars, timerVars, otherPages>>

----
\* WorkoutDetailPage: a persisted Workout and the values derived from it

NullWorkout ==
    [id |-> 0, routineName |-> "", startedAt |-> UndefinedISO, completedAt |-> UndefinedISO,
     duration |-> Undefined, sets |-> <<>>]

\* a * b of two numbers
NumTimes(a, b) ==
    IF a.kind = "finite" /\ b.kind = "finite"
    THEN Finite((a.milli \div Scale) * b.milli + ((a.milli % Scale) * b.milli) \div Scale)
    ELSE NaN

\* a + b of two numbers
NumPlus(a, b) ==
    IF a.kind = "finite" /\ b.kind = "finite" THEN Finite(a.milli + b.milli) ELSE NaN

\* the volume of a set whatever its weight: null * reps is 0, undefined * reps is NaN
calculateVolume_NoGuard(set) ==
    IF set.weight = Null THEN Finite(0) ELSE NumTimes(set.weight, set.reps)

calculateVolume(set) ==
    IF set.weight = Undefined \/ set.weight = Null THEN Finite(0)
    ELSE NumTimes(set.weight, set.reps)

\* useMemo: the id of the route as a number, NaN when absent or not finite
workoutId ==
    IF ~Truthy(workoutIdParam) THEN NaN
    ELSE IF NumberIsFinite(Number(workoutIdParam)) THEN Number(workoutIdParam) ELSE NaN

\* typeof value === 'number'
TypeofNumber(n) == n.kind \in {"finite", "NaN", "Infinity", "-Infinity"}

\* the duration recomputed from the timestamps even when one is stored
durationInSeconds_Recomputed ==
    LET start == NewDateISO(workout.startedAt)
        end == NewDateISO(workout.completedAt)
    IN  IF workout = NullWorkout THEN Undefined
        ELSE IF workout.completedAt.defined /\ end.ms >= start.ms
        THEN MathRound(MsToSeconds(end.ms - start.ms))
        ELSE IF TypeofNumber(workout.duration) THEN workout.duration
        ELSE Undefined

durationInSeconds ==
    LET start == NewDateISO(workout.startedAt)
        end == NewDateISO(workout.completedAt)
    IN  IF workout = NullWorkout THEN Undefined
        ELSE IF TypeofNumber(workout.duration) THEN workout.duration
        ELSE IF workout.completedAt.defined
        THEN IF ~DateIsNaN(start) /\ ~DateIsNaN(end) /\ end.ms >= start.ms
             THEN MathRound(MsToSeconds(end.ms - start.ms))
             ELSE Undefined
        ELSE Undefined

totalSets == Len(workout.sets)

\* sets.reduce((acc, current) => acc + calculateVolume(current), 0)
RECURSIVE ReduceVolume(_, _)
ReduceVolume(sets, acc) ==
    IF sets = <<>> THEN acc
    ELSE ReduceVolume(Tail(sets), NumPlus(acc, calculateVolume(Head(sets))))

totalVolume == ReduceVolume(workout.sets, Finite(0))

\* the forEach over the sets: grouped is the Map, its entries in insertion order
RECURSIVE GroupSets(_, _)
GroupSets(sets, grouped) ==
    IF sets = <<>> THEN grouped
    ELSE
        LET set == Head(sets)
            entry == {g \in 1..Len(grouped) : grouped[g].exerciseId = set.exerciseId}
        IN  GroupSets(Tail(sets),
                IF entry # {}
                THEN [grouped EXCEPT ![CHOOSE g \in entry : TRUE].sets = Append(@, set)]
                ELSE Append(grouped, [exerciseId |-> set.exerciseId,
                                      exerciseName |-> set.exerciseName,
                                      sets |-> <<set>>]))

\* [...sets].sort((a, b) => a.setNumber - b.setNumber): a stable sort
RECURSIVE SortBySetNumber(_)
SortBySetNumber(sets) ==
    IF sets = <<>> THEN <<>>
    ELSE
        LET last == sets[Len(sets)]
            rest == SortBySetNumber(SubSeq(sets, 1, Len(sets) - 1))
            before == {k \in 1..Len(rest) : rest[k].setNumber <= last.setNumber}
            cut == IF before = {} THEN 0 ELSE CHOOSE k \in before : \A j \in before : j <= k
        IN  SubSeq(rest, 1, cut) \o <<last>> \o SubSeq(rest, cut + 1, Len(rest))

\* the groups with their sets left in the order of the set list
setsByExercise_Unsorted ==
    LET grouped == GroupSets(workout.sets, <<>>) IN
    [g \in 1..Len(grouped) |->
        [exerciseName |-> grouped[g].exerciseName, sets |-> grouped[g].sets]]

setsByExercise ==
    LET grouped == GroupSets(workout.sets, <<>>) IN
    [g \in 1..Len(grouped) |->
        [exerciseName |-> grouped[g].exerciseName,
         sets |-> SortBySetNumber(grouped[g].sets)]]

\* loadWorkout called by the retry button, shown with the error of a finite id
loadWorkoutRetry ==
    /\ detailError # ""
    /\ ~detailIsLoading
    /\ NumberIsFinite(workoutId)
    /\ detailIsLoading' = TRUE
    /\ pendingWorkoutLoads' = pendingWorkoutLoads \cup {workoutId}
    /\ lastEvent' = Event("loadWorkout", 0, 0)
    /\ UNCHANGED <<workoutIdParam, workout, detailError>>
    /\ UNCHANGED <<loadVars, formVars, timerVars, submitVars, routineFormVars, authVars>>

loadWorkoutResolve(data) ==
    /\ Int2Num(data.id) \in pendingWorkoutLoads
    /\ pendingWorkoutLoads' = pendingWorkoutLoads \ {Int2Num(data.id)}
    /\ workout' = data
    /\ detailError' = ""
    /\ detailIsLoading' = FALSE
    /\ lastEvent' = Event("loadWorkoutResolved", 0, 0)
    /\ UNCHANGED workoutIdParam
    /\ UNCHANGED <<loadVars, formVars, timerVars, submitVars, routineFormVars, authVars>>

LoadWorkoutFallbackMessage == "Error al cargar el entrenamiento"

loadWorkoutReject(id, message) ==
    /\ id \in pendingWorkoutLoads
    /\ pendingWorkoutLoads' = pendingWorkoutLoads \ {id}
    /\ detailError' = IF message # "" THEN message ELSE LoadWorkoutFallbackMessage
    /\ detailIsLoading' = FALSE
    /\ lastEvent' = Event("loadWorkoutRejected", 0, 0)
    /\ UNCHANGED <<workoutIdParam, workout>>
    /\ UNCHANGED <<loadVars, formVars, timerVars, submitVars, routineFormVars, authVars>>

\* the useMemo of workoutId for a route id
workoutIdOf(id) ==
    IF ~Truthy(id) THEN NaN
    ELSE IF NumberIsFinite(Number(id)) THEN Number(id) ELSE NaN

\* The route id changes while the page stays mounted.  loadWorkout is a new callback
\* only when workoutId is another number (NaN is the same as NaN), and the effect
\* then calls it: workout is left as it is.
workoutIdChange(id) ==
    /\ workoutIdParam # <<>> \/ detailIsLoading \/ detailError # ""
    /\ id # workoutIdParam
    /\ workoutIdOf(id) \notin pendingWorkoutLoads
    /\ workoutIdParam' = id
    /\ IF workoutIdOf(id) = workoutId
       THEN UNCHANGED <<pendingWorkoutLoads, detailIsLoading, detailError>>
       ELSE IF ~NumberIsFinite(workoutIdOf(id))
       THEN /\ detailError' = "Entrenamiento no encontrado"
            /\ detailIsLoading' = FALSE
            /\ UNCHANGED pendingWorkoutLoads
       ELSE /\ detailIsLoading' = TRUE
            /\ pendingWorkoutLoads' = pendingWorkoutLoads \cup {workoutIdOf(id)}
            /\ UNCHANGED detailError
    /\ lastEvent' = Event("workoutIdChange", 0, 0)
    /\ UNCHANGED workout
    /\ UNCHANGED <<loadVars, formVars, timerVars, submitVars, routineFormVars, authVars>>

\* render: the ErrorMessage of the page
DetailErrorShown == detailError # "" /\ ~detailIsLoading

\* render: the summary and the sets of the workout
DetailContentShown == ~detailIsLoading /\ workout # NullWorkout

\* the page is not on screen
DetailUnmounted ==
    /\ workoutIdParam = <<>>
    /\ pendingWorkoutLoads = {}
    /\ workout = NullWorkout
    /\ detailIsLoading = FALSE
    /\ detailError = ""

\* the page after it mounts with a route id among params: the effect has called
\* loadWorkout
DetailMounted(params) ==
    /\ workoutIdParam \in params
    /\ pendingWorkoutLoads = IF NumberIsFinite(workoutId) THEN {workoutId} ELSE {}
    /\ workout = NullWorkout
    /\ detailIsLoading = NumberIsFinite(workoutId)
    /\ detailError = IF NumberIsFinite(workoutId) THEN "" ELSE "Entrenamiento no encontrado"

----
\* RoutineFormPage: the form that creates or updates a routine

NoRoutineRequest == [pending |-> FALSE, kind |-> "", payload |-> <<>>]

\* the page is not on screen
RoutineFormUnmounted ==
    /\ routineFormId = <<>>
    /\ formData = [name |-> <<>>, description |-> <<>>]
    /\ routineExercises = <<>>
    /\ isLoadingRoutine = FALSE
    /\ routineIsSubmitting = FALSE
    /\ routineError = ""
    /\ routineLoadPending = FALSE
    /\ routineRequest = NoRoutineRequest
    /\ routineNavigated = FALSE

\* the page after it mounts at a route id among ids: in edit mode the effect has
\* called loadRoutine
RoutineFormMounted(ids) ==
    /\ routineFormId \in ids
    /\ formData = [name |-> <<>>, description |-> <<>>]
    /\ routineExercises = <<>>
    /\ isLoadingRoutine = Truthy(routineFormId)
    /\ routineIsSubmitting = FALSE
    /\ routineError = ""
    /\ routineLoadPending = Truthy(routineFormId)
    /\ routineRequest = NoRoutineRequest
    /\ routineNavigated = FALSE

\* the form is on screen: the page returns the spinner alone while isLoadingRoutine
RoutineFormShown == ~isLoadingRoutine /\ ~routineNavigated

\* a ?? undefined
OrUndefined(n) == Coalesce(n, Undefined)

\* the entry loadRoutine makes of an exercise of the routine
LoadedExercise(exercise) ==
    [exerciseId |-> exercise.exerciseId, exerciseName |-> exercise.exerciseName,
     sets |-> exercise.sets, repRangeMin |-> OrUndefined(exercise.repRangeMin),
     repRangeMax |-> OrUndefined(exercise.repRangeMax), technique |-> exercise.technique,
     restTime |-> OrUndefined(exercise.restTime)]

\* await routineService.getRoutine(Number(id)) returns
getRoutineResolve(data) ==
    /\ routineLoadPending
    /\ routineLoadPending' = FALSE
    /\ formData' = [name |-> data.name, description |-> data.description]
    /\ routineExercises' = [i \in DOMAIN data.exercises |-> LoadedExercise(data.exercises[i])]
    /\ isLoadingRoutine' = FALSE
    /\ lastEvent' = Event("getRoutineResolved", 0, 0)
    /\ UNCHANGED <<routineFormId, routineIsSubmitting, routineError, routineRequest,
                   routineNavigated>>
    /\ UNCHANGED <<loadVars, formVars, timerVars, submitVars, detailVars, authVars>>

LoadRoutineFormFallbackMessage == "Error al cargar la rutina"

\* await routineService.getRoutine(Number(id)) throws
getRoutineReject(message) ==
    /\ routineLoadPending
    /\ routineLoadPending' = FALSE
    /\ routineError' = IF message # "" THEN message ELSE LoadRoutineFormFallbackMessage
    /\ isLoadingRoutine' = FALSE
    /\ lastEvent' = [Event("getRoutineRejected", 0, 0) EXCEPT !.message = message]
    /\ UNCHANGED <<routineFormId, formData, routineExercises, routineIsSubmitting,
                   routineRequest, routineNavigated>>
    /\ UNCHANGED <<loadVars, formVars, timerVars, submitVars, detailVars, authVars>>

\* useMemo: the exercise ids of the list
addedExerciseIds == {routineExercises[i].exerciseId : i \in DOMAIN routineExercises}

\* the entry handleAddExercise appends
NewRoutineExercise(exercise) ==
    [exerciseId |-> exercise.id, exerciseName |-> exercise.name, sets |-> Int2Num(3),
     repRangeMin |-> Undefined, repRangeMax |-> Undefined, technique |-> "normal",
     restTime |-> Undefined]

\* the list after handleAddExercise, whether or not the exercise is in it already
AddExercise_Again(prev, exercise) == Append(prev, NewRoutineExercise(exercise))

AddExercise(prev, exercise) ==
    IF exercise.id \in {prev[i].exerciseId : i \in DOMAIN prev} THEN prev
    ELSE Append(prev, NewRoutineExercise(exercise))

\* exercises the list holds at most
MaxRoutineExercises == 3

handleAddExercise(exercise) ==
    /\ RoutineFormShown
    /\ Len(routineExercises) < MaxRoutineExercises
    /\ routineExercises' = AddExercise(routineExercises, exercise)
    /\ lastEvent' = Event("addExercise", exercise.id, 0)
    /\ UNCHANGED <<routineFormId, formData, isLoadingRoutine, routineIsSubmitting,
                   routineError, routineLoadPending, routineRequest, routineNavigated>>
    /\ UNCHANGED <<loadVars, formVars, timerVars, submitVars, detailVars, authVars>>

\* prev.filter((_, idx) => idx !== index); index counts from 1 here
handleRemoveExercise(index) ==
    /\ RoutineFormShown
    /\ index \in DOMAIN routineExercises
    /\ routineExercises' = FilterOut(routineExercises, index)
    /\ lastEvent' = Event("removeExercise", index, 0)
    /\ UNCHANGED <<routineFormId, formData, isLoadingRoutine, routineIsSubmitting,
                   routineError, routineLoadPending, routineRequest, routineNavigated>>
    /\ UNCHANGED <<loadVars, formVars, timerVars, submitVars, detailVars, authVars>>

\* array.splice(at, 0, item): item becomes the element at position at
SpliceIn(array, at, item) == SubSeq(array, 1, at - 1) \o <<item>> \o SubSeq(array, at, Len(array))

\* the updater of moveExercise; index counts from 1 here
MoveExercise(prev, index, direction) ==
    LET targetIndex == IF direction = "up" THEN index - 1 ELSE index + 1 IN
    IF targetIndex < 1 \/ targetIndex > Len(prev) THEN prev
    ELSE SpliceIn(FilterOut(prev, index), targetIndex, prev[index])

moveExercise(index, direction) ==
    /\ RoutineFormShown
    /\ index \in DOMAIN routineExercises
    /\ routineExercises' = MoveExercise(routineExercises, index, direction)
    /\ lastEvent' = [Event("moveExercise", index, 0) EXCEPT !.message = direction]
    /\ UNCHANGED <<routineFormId, formData, isLoadingRoutine, routineIsSubmitting,
                   routineError, routineLoadPending, routineRequest, routineNavigated>>
    /\ UNCHANGED <<loadVars, formVars, timerVars, submitVars, detailVars, authVars>>

\* Math.max(1, parsed) of a number that is not NaN
MathMaxOne(parsed) ==
    CASE parsed.kind = "finite" -> IF parsed.milli < Scale THEN Int2Num(1) ELSE parsed
      [] parsed.kind = "Infinity" -> parsed
      [] OTHER -> Int2Num(1)

\* the entry handleExerciseFieldChange puts in place of exercise
ExerciseFieldChange(exercise, field, value) ==
    LET parsed == Number(value)
        numericValue == IF value = <<>> THEN Undefined ELSE Number(value)
    IN  CASE field = "technique" -> [exercise EXCEPT !.technique = value]
          [] field = "sets" ->
                [exercise EXCEPT !.sets = IF parsed = NaN THEN Int2Num(0)
                                          ELSE MathMaxOne(parsed)]
          [] field = "repRangeMin" -> [exercise EXCEPT !.repRangeMin = numericValue]
          [] field = "repRangeMax" -> [exercise EXCEPT !.repRangeMax = numericValue]
          [] field = "restTime" -> [exercise EXCEPT !.restTime = numericValue]
          [] OTHER -> exercise

\* index counts from 1 here
handleExerciseFieldChange(index, field, value) ==
    /\ RoutineFormShown
    /\ index \in DOMAIN routineExercises
    /\ routineExercises' =
            [routineExercises EXCEPT
                ![index] = ExerciseFieldChange(routineExercises[index], field, value)]
    /\ lastEvent' = [Event("exerciseFieldChange", index, 0) EXCEPT !.message = field]
    /\ UNCHANGED <<routineFormId, formData, isLoadingRoutine, routineIsSubmitting,
                   routineError, routineLoadPending, routineRequest, routineNavigated>>
    /\ UNCHANGED <<loadVars, formVars, timerVars, submitVars, detailVars, authVars>>

\* the name input and the description textarea
handleInputChange(name, value) ==
    /\ RoutineFormShown
    /\ formData' = [formData EXCEPT ![name] = value]
    /\ lastEvent' = [Event("inputChange", 0, 0) EXCEPT !.message = name]
    /\ UNCHANGED <<routineFormId, routineExercises, isLoadingRoutine,
                   routineIsSubmitting, routineError, routineLoadPending,
                   routineRequest, routineNavigated>>
    /\ UNCHANGED <<loadVars, formVars, timerVars, submitVars, detailVars, authVars>>

\* a > b of two numbers or undefined (false when either is NaN or undefined)
NumGreater(a, b) ==
    CASE a.kind = "finite" /\ b.kind = "finite" -> a.milli > b.milli
      [] a.kind = "Infinity" -> b.kind \in {"finite", "-Infinity"}
      [] b.kind = "-Infinity" -> a.kind \in {"finite", "Infinity"}
      [] OTHER -> FALSE

\* the check of one exercise without the test of the rep range
ExerciseError_NoRange(exercise) ==
    IF ~NumTruthy(exercise.sets) \/ NumLess(exercise.sets, 1)
    THEN "Define la cantidad de series para " \o exercise.exerciseName \o "."
    ELSE ""

\* the body of the loop of validateForm: the error of one exercise, "" when it passes
ExerciseError(exercise) ==
    IF ~NumTruthy(exercise.sets) \/ NumLess(exercise.sets, 1)
    THEN "Define la cantidad de series para " \o exercise.exerciseName \o "."
    ELSE IF /\ exercise.repRangeMin # Undefined
            /\ exercise.repRangeMax # Undefined
            /\ NumGreater(exercise.repRangeMin, exercise.repRangeMax)
    THEN "El rango de repeticiones en " \o exercise.exerciseName \o " no es válido."
    ELSE ""

\* validateForm: the error it sets, "" when it returns true
validateForm ==
    IF ~Truthy(Trim(formData.name)) THEN "El nombre de la rutina es obligatorio."
    ELSE IF Len(routineExercises) = 0 THEN "Agrega al menos un ejercicio a la rutina."
    ELSE LET failing == {i \in DOMAIN routineExercises :
                            ExerciseError(routineExercises[i]) # ""}
         IN  IF failing = {} THEN ""
             ELSE ExerciseError(routineExercises[CHOOSE i \in failing :
                                                    \A k \in failing : i <= k])

\* an exercise of the payload; a field that is undefined stands for an absent key,
\* and index, counted from 1 here, is the index + 1 of the code
PayloadExercise(exercise, index) ==
    [exerciseId |-> exercise.exerciseId, sets |-> exercise.sets,
     technique |-> exercise.technique, orderInRoutine |-> index,
     repRangeMin |-> exercise.repRangeMin, repRangeMax |-> exercise.repRangeMax,
     restTime |-> exercise.restTime]

RoutinePayload ==
    [name |-> Trim(formData.name),
     description |-> IF Truthy(Trim(formData.description)) THEN Trim(formData.description)
                     ELSE UndefinedText,
     exercises |-> [i \in DOMAIN routineExercises |->
                        PayloadExercise(routineExercises[i], i)]]

\* The form's onSubmit handler.  The submit button is disabled while isSubmitting.
handleRoutineSubmit ==
    /\ RoutineFormShown
    /\ ~routineIsSubmitting
    /\ IF validateForm # ""
       THEN /\ routineError' = validateForm
            /\ UNCHANGED <<routineIsSubmitting, routineRequest>>
       ELSE /\ routineError' = ""
            /\ routineIsSubmitting' = TRUE
            /\ routineRequest' =
                    [pending |-> TRUE,
                     kind |-> IF Truthy(routineFormId) THEN "updateRoutine"
                              ELSE "createRoutine",
                     payload |-> RoutinePayload]
    /\ lastEvent' = Event("routineSubmit", 0, 0)
    /\ UNCHANGED <<routineFormId, formData, routineExercises, isLoadingRoutine,
                   routineLoadPending, routineNavigated>>
    /\ UNCHANGED <<loadVars, formVars, timerVars, submitVars, detailVars, authVars>>

\* the awaited createRoutine or updateRoutine returns
saveRoutineResolve ==
    /\ routineRequest.pending
    /\ routineNavigated' = TRUE
    /\ routineIsSubmitting' = FALSE
    /\ routineRequest' = NoRoutineRequest
    /\ lastEvent' = Event("saveRoutineResolved", 0, 0)
    /\ UNCHANGED <<routineFormId, formData, routineExercises, isLoadingRoutine,
                   routineError, routineLoadPending>>
    /\ UNCHANGED <<loadVars, formVars, timerVars, submitVars, detailVars, authVars>>

SaveRoutineFallbackMessage == "Error al guardar la rutina."

\* the awaited createRoutine or updateRoutine throws
saveRoutineReject(message) ==
    /\ routineRequest.pending
    /\ routineError' = IF message # "" THEN message ELSE SaveRoutineFallbackMessage
    /\ routineIsSubmitting' = FALSE
    /\ routineRequest' = NoRoutineRequest
    /\ lastEvent' = [Event("saveRoutineRejected", 0, 0) EXCEPT !.message = message]
    /\ UNCHANGED <<routineFormId, formData, routineExercises, isLoadingRoutine,
                   routineLoadPending, routineNavigated>>
    /\ UNCHANGED <<loadVars, formVars, timerVars, submitVars, detailVars, authVars>>

\* onRetry of the ErrorMessage: setError('')
clearRoutineError ==
    /\ RoutineFormShown
    /\ routineError # ""
    /\ routineError' = ""
    /\ lastEvent' = Event("clearRoutineError", 0, 0)
    /\ UNCHANGED <<routineFormId, formData, routineExercises, isLoadingRoutine,
                   routineIsSubmitting, routineLoadPending, routineRequest,
                   routineNavigated>>
    /\ UNCHANGED <<loadVars, formVars, timerVars, submitVars, detailVars, authVars>>

----
\* AuthProvider: the signed-in user and the token the auth service keeps

NullUser == ""

\* a session that was verified: the pages above are behind ProtectedRoute
AuthSignedIn ==
    /\ user = "ana"
    /\ authIsLoading = FALSE
    /\ storedToken = "token-ana"
    /\ storedUser = "ana"
    /\ pendingAuth = {}

\* authService.logout(): the stored token and user are removed
AuthServiceLogout == storedToken' = "" /\ storedUser' = NullUser

\* authService.saveToken(token) and authService.saveUser(u)
AuthServiceSave(token, u) == storedToken' = token /\ storedUser' = u

\* the token the auth service issues to a user
TokenOf(username) == "token-" \o username

\* a call of the auth service that has not settled
AuthCall(kind, username) == [kind |-> kind, username |-> username]

\* the provider after it mounts over a stored session among sessions: initAuth has
\* read the token and the user and, when both are there, awaits getProfile
AuthMounted(sessions) ==
    /\ \E session \in sessions :
            storedToken = session.token /\ storedUser = session.user
    /\ user = NullUser
    /\ pendingAuth = IF storedToken # "" /\ storedUser # NullUser
                     THEN {AuthCall("getProfile", storedUser)} ELSE {}
    /\ authIsLoading = (storedToken # "" /\ storedUser # NullUser)

\* await authService.getProfile() returns the profile
getProfileResolve(profile) ==
    /\ AuthCall("getProfile", profile) \in pendingAuth
    /\ pendingAuth' = pendingAuth \ {AuthCall("getProfile", profile)}
    /\ user' = profile
    /\ authIsLoading' = FALSE
    /\ lastEvent' = Event("getProfileResolved", 0, 0)
    /\ UNCHANGED <<storedToken, storedUser>>
    /\ UNCHANGED <<loadVars, formVars, timerVars, submitVars, detailVars, routineFormVars>>

\* await authService.getProfile() throws: the token expired or is invalid
getProfileReject(profile) ==
    /\ AuthCall("getProfile", profile) \in pendingAuth
    /\ pendingAuth' = pendingAuth \ {AuthCall("getProfile", profile)}
    /\ AuthServiceLogout
    /\ authIsLoading' = FALSE
    /\ lastEvent' = Event("getProfileRejected", 0, 0)
    /\ UNCHANGED user
    /\ UNCHANGED <<loadVars, formVars, timerVars, submitVars, detailVars, routineFormVars>>

\* login(username, password) and register(username, password) up to their await;
\* kind is "login" or "register"
signIn(kind, username) ==
    /\ AuthCall(kind, username) \notin pendingAuth
    /\ pendingAuth' = pendingAuth \cup {AuthCall(kind, username)}
    /\ lastEvent' = Event(kind, 0, 0)
    /\ UNCHANGED <<user, authIsLoading, storedToken, storedUser>>
    /\ UNCHANGED <<loadVars, formVars, timerVars, submitVars, detailVars, routineFormVars>>

\* await authService.login(...) or authService.register(...) returns
signInResolve(kind, username) ==
    /\ kind \in {"login", "register"}
    /\ AuthCall(kind, username) \in pendingAuth
    /\ pendingAuth' = pendingAuth \ {AuthCall(kind, username)}
    /\ AuthServiceSave(TokenOf(username), username)
    /\ user' = username
    /\ lastEvent' = Event(kind \o "Resolved", 0, 0)
    /\ UNCHANGED authIsLoading
    /\ UNCHANGED <<loadVars, formVars, timerVars, submitVars, detailVars, routineFormVars>>

\* await authService.login(...) or authService.register(...) throws: the caller
\* gets the error
signInReject(kind, username) ==
    /\ kind \in {"login", "register"}
    /\ AuthCall(kind, username) \in pendingAuth
    /\ pendingAuth' = pendingAuth \ {AuthCall(kind, username)}
    /\ lastEvent' = Event(kind \o "Rejected", 0, 0)
    /\ UNCHANGED <<user, authIsLoading, storedToken, storedUser>>
    /\ UNCHANGED <<loadVars, formVars, timerVars, submitVars, detailVars, routineFormVars>>

logout ==
    /\ AuthServiceLogout
    /\ user' = NullUser
    /\ lastEvent' = Event("logout", 0, 0)
    /\ UNCHANGED <<authIsLoading, pendingAuth>>
    /\ UNCHANGED <<loadVars, formVars, timerVars, submitVars, detailVars, routineFormVars>>

----
\* The routines the Routine Service holds

Squat == RoutineExercise(11, "Sentadilla", 2, Int2Num(8), Int2Num(12), "normal", Int2Num(90))
Press == RoutineExercise(12, "Press banca", 1, Null, Int2Num(12), "dropset", Null)
Row == RoutineExercise(13, "Remo", 0, Null, Null, "failure", Int2Num(60))
Curl == RoutineExercise(14, "Curl", 1, Int2Num(8), Int2Num(12), "normal", Null)
Deadlift == RoutineExercise(15, "Peso muerto", 3, Int2Num(8), Int2Num(12), "normal", Int2Num(0))
Plank == RoutineExercise(16, "Plancha", 1, Int2Num(0), Int2Num(12), "rest-pause", Undefined)
Dips == RoutineExercise(17, "Fondos", 0, Undefined, Int2Num(12), "myo-reps", Int2Num(45))
Lunge == RoutineExercise(18, "Zancada", 2, Int2Num(10), Int2Num(10), "normal", Int2Num(60))
Pullup == RoutineExercise(19, "Dominada", 1, Int2Num(5), Null, "failure", Null)

RoutineStore ==
    (1 :> [id |-> 1, name |-> "Pierna", exercises |-> <<Squat>>]) @@
    (2 :> [id |-> 2, name |-> "Torso", exercises |-> <<Press, Row>>]) @@
    (3 :> [id |-> 3, name |-> "Vacía", exercises |-> <<>>]) @@
    (4 :> [id |-> 4, name |-> "Brazo", exercises |-> <<Curl>>]) @@
    (5 :> [id |-> 5, name |-> "Espalda", exercises |-> <<Row>>]) @@
    (6 :> [id |-> 6, name |-> "Fuerza", exercises |-> <<Deadlift>>]) @@
    (7 :> [id |-> 7, name |-> "Core", exercises |-> <<Plank, Dips>>]) @@
    (8 :> [id |-> 8, name |-> "Mixta", exercises |-> <<Lunge, Pullup>>])

\* the clock when the page mounts and when "mark completed" is ticked
MountClock == [valid |-> TRUE, ms |-> (10 * 60 + TimezoneOffset) * MsPerMinute + 15 * 1000]
CompletedClock == [valid |-> TRUE, ms |-> (10 * 60 + 45 + TimezoneOffset) * MsPerMinute + 30 * 1000]

NoMessage == ""
ServiceMessage == "El servicio rechazó la solicitud."

----
\* The page after it mounts: the effect has called loadRoutine (or found no routineId)

InitOf(ids) ==
    /\ routineId \in ids
    /\ pendingLoads = IF routineId = 0 THEN {} ELSE {routineId}
    /\ routine = NullRoutine
    /\ exercises = <<>>
    /\ isLoading = (routineId # 0)
    /\ isSubmitting = FALSE
    /\ error = IF routineId = 0 THEN "No se proporcionó una rutina válida." ELSE ""
    /\ formError = ""
    /\ startedAt = formatDateTimeLocal(MountClock)
    /\ markCompleted = FALSE
    /\ completedAt = EmptyDateText
    /\ durationMinutes = <<>>
    /\ notes = <<>>
    /\ timerSeconds = 0
    /\ isTimerRunning = FALSE
    /\ inFlight = NoRequest
    /\ navigated = FALSE
    /\ lastEvent = Event("mount", 0, 0)
    /\ DetailUnmounted
    /\ RoutineFormUnmounted
    /\ AuthSignedIn

\* the validation workflow: no routineId, or a routine of two exercises (one without
\* sets), of no exercise, or of one exercise without sets
Init == InitOf({0, 2, 3, 5})

SetFields == {"weight", "reps", "restTime"}

\* what the user types in the validation workflow
FieldInputs(field) ==
    CASE field = "reps" -> {<<"0">>}
      [] field = "weight" -> {<<"a", "b", "c">>}
      [] field = "restTime" -> {<<"a", "b", "c">>}

StartedAtInputs == {EmptyDateText, MalformedDateText}
CompletedAtInputs == {DateText(0, 9, 30), MalformedDateText}
DurationInputs == {<<"0">>, <<"3", "0">>}
NotesInputs == {<<" ", "o", "k", " ">>}

Next ==
    \/ \E id \in pendingLoads : LoadRoutineResolve(RoutineStore[id])
    \/ \E id \in pendingLoads, message \in {NoMessage, ServiceMessage} :
            LoadRoutineReject(id, message)
    \/ \E ei \in 1..2, field \in SetFields :
            \E value \in FieldInputs(field) : handleSetFieldChange(ei, 1, field, value)
    \/ \E value \in StartedAtInputs : setStartedAt(value)
    \/ \E checked \in BOOLEAN : handleMarkCompleted(checked, CompletedClock)
    \/ \E value \in CompletedAtInputs : setCompletedAt(value)
    \/ \E value \in DurationInputs : setDurationMinutes(value)
    \/ \E value \in NotesInputs : setNotes(value)
    \/ handleSubmit
    \/ createWorkoutResolve
    \/ \E message \in {NoMessage, ServiceMessage} : createWorkoutReject(message)

Spec == Init /\ [][Next]_vars

----
\* Set editing: a routine of one exercise with two planned sets, or of two exercises,
\* the second without planned sets (and, in one routine, with a maximum only)

InitEdit == InitOf({1, 2, 7})

EditInputs(field) ==
    CASE field = "reps" -> {<<>>}
      [] field = "weight" -> {<<"8", "0">>}
      [] field = "technique" -> {"myo-reps"}
      [] field = "restTime" -> {<<>>}

NextEdit ==
    \/ \E id \in pendingLoads : LoadRoutineResolve(RoutineStore[id])
    \/ \E ei \in 1..2, si \in 1..MaxSets, field \in SetFields \cup {"technique"} :
            \E value \in EditInputs(field) : handleSetFieldChange(ei, si, field, value)
    \/ \E ei \in 1..2 : handleAddSet(ei)
    \/ \E ei \in 1..2, si \in 1..MaxSets : handleRemoveSet(ei, si)

SpecEdit == InitEdit /\ [][NextEdit]_vars

----
\* The numbers of the sets: a routine of one exercise with two planned sets, whose
\* reps, weight and rest fields take texts of every kind Number() tells apart.  The
\* fields are typed between submissions, not while a request is pending.

InitSets == InitOf({1})

NumberInputs(field) ==
    CASE field = "reps" ->
            {<<"5", ".", "0">>, <<"1", ".", "5">>, <<"0", ".", "4">>, <<"0">>,
             <<"-", "1">>, <<"a", "b", "c">>, <<>>}
      [] field = "weight" -> {<<"-", "5">>, <<"2", ".", "5">>}
      [] field = "restTime" -> {<<"-", "5">>, <<"1", ".", "5">>}

NextSets ==
    \/ \E id \in pendingLoads : LoadRoutineResolve(RoutineStore[id])
    \/ /\ ~isSubmitting
       /\ \E si \in 1..2, field \in SetFields :
            \E value \in NumberInputs(field) : handleSetFieldChange(1, si, field, value)
    \/ handleSubmit
    \/ createWorkoutResolve
    \/ \E message \in {NoMessage, ServiceMessage} : createWorkoutReject(message)

SpecSets == InitSets /\ [][NextSets]_vars

----
\* The session times: a routine of one exercise with one planned set; start,
\* completion and duration take texts of every kind the submission tells apart.

InitTime == InitOf({4})

StartTexts == {DateText(0, 23, 30), EmptyDateText, MalformedDateText}
CompletedTexts ==
    {DateText(0, 9, 30), DateText(0, 10, 0), DateText(1, 0, 5), MalformedDateText,
     EmptyDateText}
MinutesTexts ==
    {<<>>, <<" ">>, <<"3", "0">>, <<"1", ".", "5">>, <<"0", ".", "0", "0", "1">>,
     <<"0", ".", "0", "0", "9">>, <<"0">>, <<"-", "1">>, <<"a", "b", "c">>}

NextTime ==
    \/ \E id \in pendingLoads : LoadRoutineResolve(RoutineStore[id])
    \/ \E value \in StartTexts : setStartedAt(value)
    \/ \E checked \in BOOLEAN : handleMarkCompleted(checked, CompletedClock)
    \/ \E value \in CompletedTexts : setCompletedAt(value)
    \/ \E value \in MinutesTexts : setDurationMinutes(value)
    \/ handleSubmit
    \/ createWorkoutResolve
    \/ \E message \in {NoMessage, ServiceMessage} : createWorkoutReject(message)

SpecTime == InitTime /\ [][NextTime]_vars

----
\* Materialization: routines whose exercises have both bounds, one, none, equal
\* bounds or a bound of 0, with and without a rest time, planning 0 to 3 sets; the
\* form is submitted as it was materialized, with the start and completion fields set.

InitLoad == InitOf({1, 2, 5, 6, 7, 8})

NextLoad ==
    \/ \E id \in pendingLoads : LoadRoutineResolve(RoutineStore[id])
    \/ \E id \in pendingLoads, message \in {NoMessage, ServiceMessage} :
            LoadRoutineReject(id, message)
    \/ \E value \in StartedAtInputs : setStartedAt(value)
    \/ \E checked \in BOOLEAN : handleMarkCompleted(checked, CompletedClock)
    \/ handleSubmit
    \/ createWorkoutResolve
    \/ \E message \in {NoMessage, ServiceMessage} : createWorkoutReject(message)

SpecLoad == InitLoad /\ [][NextLoad]_vars

----
\* Flattening: routines of two exercises whose sets are added, removed and given a
\* weight before the form is submitted

InitFlatten == InitOf({2, 8})

NextFlatten ==
    \/ \E id \in pendingLoads : LoadRoutineResolve(RoutineStore[id])
    \/ /\ ~isSubmitting
       /\ \E ei \in 1..2, si \in 1..MaxSets :
            handleSetFieldChange(ei, si, "weight", <<"8", "0">>)
    \/ \E ei \in 1..2 : ~isSubmitting /\ handleAddSet(ei)
    \/ \E ei \in 1..2, si \in 1..MaxSets : ~isSubmitting /\ handleRemoveSet(ei, si)
    \/ handleSubmit
    \/ createWorkoutResolve
    \/ createWorkoutReject(NoMessage)

SpecFlatten == InitFlatten /\ [][NextFlatten]_vars

----
\* The workout detail page: the persisted workouts the Workout Service may return

\* WorkoutStartPage is not on screen
StartPageUnmounted ==
    /\ routineId = 0
    /\ pendingLoads = {}
    /\ routine = NullRoutine
    /\ exercises = <<>>
    /\ isLoading = FALSE
    /\ isSubmitting = FALSE
    /\ error = ""
    /\ formError = ""
    /\ startedAt = EmptyDateText
    /\ markCompleted = FALSE
    /\ completedAt = EmptyDateText
    /\ durationMinutes = <<>>
    /\ notes = <<>>
    /\ timerSeconds = 0
    /\ isTimerRunning = FALSE
    /\ inFlight = NoRequest
    /\ navigated = FALSE
    /\ lastEvent = Event("mount", 0, 0)

ISOText(d, h, m, sec, ms) ==
    [defined |-> TRUE, day |-> d, hour |-> h, minute |-> m, second |-> sec,
     millisecond |-> ms]

WorkoutSet(id, exerciseId, exerciseName, setNumber, weight, reps) ==
    [id |-> id, exerciseId |-> exerciseId, exerciseName |-> exerciseName,
     setNumber |-> setNumber, weight |-> weight, reps |-> reps, technique |-> "normal",
     restTime |-> Undefined]

\* the sets a workout is made of; id is the row id of the set
LoggedSets(id) ==
    <<WorkoutSet(id, 11, "Sentadilla", 2, Int2Num(80), Int2Num(5)),
      WorkoutSet(id, 12, "Press banca", 1, Null, Int2Num(8)),
      WorkoutSet(id, 11, "Sentadilla", 1, Undefined, Int2Num(10)),
      WorkoutSet(id, 12, "Press banca", 2, Finite(2 * Scale + Scale \div 2), Int2Num(3))>>

\* sets a persisted workout has at most
MaxLoggedSets == 3

SetLists ==
    UNION {{[k \in 1..n |-> LoggedSets(k)[choice[k]]] : choice \in [1..n -> 1..4]} :
            n \in 0..MaxLoggedSets}

StoredStart == ISOText(0, 15, 0, 15, 0)
StoredCompletions ==
    {UndefinedISO, StoredStart, ISOText(0, 15, 45, 30, 500), ISOText(0, 14, 0, 0, 0)}
StoredDurations == {Undefined, Null, Finite(0), Int2Num(1800)}

Workouts(id) ==
    {[id |-> id, routineName |-> "Pierna", startedAt |-> StoredStart,
      completedAt |-> completed, duration |-> duration, sets |-> sets] :
        completed \in StoredCompletions, duration \in StoredDurations, sets \in SetLists}

DetailParams == {<<"7">>, <<"a", "b", "c">>, <<>>}

InitDetail ==
    /\ StartPageUnmounted
    /\ DetailMounted(DetailParams)
    /\ RoutineFormUnmounted
    /\ AuthSignedIn

NextDetail ==
    \/ \E id \in pendingWorkoutLoads : \E data \in Workouts(id.milli \div Scale) :
            loadWorkoutResolve(data)
    \/ \E id \in pendingWorkoutLoads, message \in {NoMessage, ServiceMessage} :
            loadWorkoutReject(id, message)
    \/ loadWorkoutRetry

SpecDetail == InitDetail /\ [][NextDetail]_vars

----
\* The workout page while the route goes from one workout to another: loads succeed
\* or fail in any order

RouteParams == {<<"7">>, <<"8">>, <<"a", "b", "c">>}

RouteWorkouts(id) ==
    {w \in Workouts(id) : w.duration = Undefined /\ w.completedAt = UndefinedISO
                            /\ Len(w.sets) <= 1}

InitDetailRoute ==
    /\ StartPageUnmounted
    /\ DetailMounted(RouteParams)
    /\ RoutineFormUnmounted
    /\ AuthSignedIn

NextDetailRoute ==
    \/ \E id \in pendingWorkoutLoads : \E data \in RouteWorkouts(id.milli \div Scale) :
            loadWorkoutResolve(data)
    \/ \E id \in pendingWorkoutLoads, message \in {NoMessage, ServiceMessage} :
            loadWorkoutReject(id, message)
    \/ loadWorkoutRetry
    \/ \E id \in RouteParams : workoutIdChange(id)

SpecDetailRoute == InitDetailRoute /\ [][NextDetailRoute]_vars

----
\* The routine form: a new routine, or a stored one whose entries the service never
\* checked (a range upside down, no sets), edited and submitted

ApiExercise(id, name, sets, min, max, technique, rest) ==
    [exerciseId |-> id, exerciseName |-> name, sets |-> sets, repRangeMin |-> min,
     repRangeMax |-> max, technique |-> technique, restTime |-> rest]

StoredRoutines ==
    (<<"1">> :> [name |-> <<"T", "o", "r", "s", "o">>, description |-> <<"d">>,
                 exercises |-> <<ApiExercise(21, "Sentadilla", Int2Num(3), Int2Num(12),
                                             Int2Num(8), "normal", Null),
                                 ApiExercise(22, "Remo", Int2Num(0), Null, Int2Num(12),
                                             "failure", Int2Num(60))>>]) @@
    (<<"2">> :> [name |-> <<"P", "i", "e", "r", "n", "a">>, description |-> <<>>,
                 exercises |-> <<ApiExercise(23, "Curl", Int2Num(2), Int2Num(8),
                                             Int2Num(8), "dropset", Null),
                                 ApiExercise(21, "Sentadilla", Int2Num(4), Null, Null,
                                             "normal", Int2Num(90)),
                                 ApiExercise(22, "Remo", Int2Num(3), Int2Num(8),
                                             Int2Num(12), "failure", Int2Num(60))>>])

\* exercises the search offers
SearchResults == {[id |-> 21, name |-> "Sentadilla"]}

\* what the inputs of an entry hold: those of type number hold a number or nothing
ExerciseInputs(field) ==
    CASE field = "sets" -> {<<"0">>}
      [] field = "repRangeMin" -> {<<>>, <<"1", "2">>}
      [] field = "repRangeMax" -> {<<"8">>}

InitRoutineForm ==
    /\ StartPageUnmounted
    /\ DetailUnmounted
    /\ RoutineFormMounted({<<>>, <<"1">>})
    /\ AuthSignedIn

NextRoutineForm ==
    \/ getRoutineResolve(StoredRoutines[routineFormId])
    \/ getRoutineReject(NoMessage)
    \/ \E exercise \in SearchResults : handleAddExercise(exercise)
    \/ \E index \in DOMAIN routineExercises : handleRemoveExercise(index)
    \/ \E index \in DOMAIN routineExercises, direction \in {"up", "down"} :
            moveExercise(index, direction)
    \/ \E index \in DOMAIN routineExercises,
          field \in {"sets", "repRangeMin", "repRangeMax"} :
            \E value \in ExerciseInputs(field) :
                handleExerciseFieldChange(index, field, value)
    \/ handleInputChange("name", <<" ", "A">>)
    \/ clearRoutineError
    \/ handleRoutineSubmit
    \/ saveRoutineResolve
    \/ \E message \in {NoMessage, ServiceMessage} : saveRoutineReject(message)

SpecRoutineForm == InitRoutineForm /\ [][NextRoutineForm]_vars

----
\* The list of the routine form: exercises are added, removed and moved, from an
\* empty list or from a stored routine of three

Catalogue ==
    {[id |-> 21, name |-> "Sentadilla"], [id |-> 22, name |-> "Remo"],
     [id |-> 23, name |-> "Curl"], [id |-> 24, name |-> "Press banca"]}

InitRoutineOrder ==
    /\ StartPageUnmounted
    /\ DetailUnmounted
    /\ RoutineFormMounted({<<>>, <<"2">>})
    /\ AuthSignedIn

NextRoutineOrder ==
    \/ getRoutineResolve(StoredRoutines[routineFormId])
    \/ \E exercise \in Catalogue : handleAddExercise(exercise)
    \/ \E index \in DOMAIN routineExercises : handleRemoveExercise(index)
    \/ \E index \in DOMAIN routineExercises, direction \in {"up", "down"} :
            moveExercise(index, direction)

SpecRoutineOrder == InitRoutineOrder /\ [][NextRoutineOrder]_vars

----
\* The page while the route goes from one routine to another: the loads succeed or
\* fail in any order

InitRoute == InitOf({1, 4})

NextRoute ==
    \/ \E id \in {0, 1, 4, 8} : routineIdChange(id)
    \/ \E id \in pendingLoads : LoadRoutineResolve(RoutineStore[id])
    \/ \E id \in pendingLoads, message \in {NoMessage, ServiceMessage} :
            LoadRoutineReject(id, message)

SpecRoute == InitRoute /\ [][NextRoute]_vars

----
\* The auth provider: it mounts over no stored session or over one whose token may
\* have expired, and users sign in, register and sign out while the calls of the
\* auth service settle in any order

StoredSessions == {[token |-> "", user |-> NullUser], [token |-> "token-ana", user |-> "ana"]}

InitAuth ==
    /\ StartPageUnmounted
    /\ DetailUnmounted
    /\ RoutineFormUnmounted
    /\ AuthMounted(StoredSessions)

NextAuth ==
    \/ getProfileResolve("ana")
    \/ getProfileReject("ana")
    \/ \E kind \in {"login", "register"}, username \in {"ana", "bea"} :
            signIn(kind, username)
    \/ \E call \in pendingAuth : signInResolve(call.kind, call.username)
    \/ \E call \in pendingAuth : signInReject(call.kind, call.username)
    \/ logout

SpecAuth == InitAuth /\ [][NextAuth]_vars

----
\* The notes of the session: typed, retyped and submitted with a routine of one
\* exercise, next to a duration that fails validation or passes

NotesTexts ==
    {<<>>, <<" ">>, <<"\n", " ", "\t">>, <<" ", "o", "k", "\n">>, <<"a", " ", "b">>}

InitNotes == InitOf({4})

NextNotes ==
    \/ \E id \in pendingLoads : LoadRoutineResolve(RoutineStore[id])
    \/ \E value \in NotesTexts : setNotes(value)
    \/ \E value \in {<<"0">>, <<"3", "0">>} : setDurationMinutes(value)
    \/ handleSubmit
    \/ createWorkoutResolve
    \/ createWorkoutReject(NoMessage)

SpecNotes == InitNotes /\ [][NextNotes]_vars

----
\* The rest timer next to the form: a routine of one exercise with one planned set,
\* whose reps are edited (to a text that fails validation), whose sets are added and
\* removed and which is submitted while the timer is started, paused, reset and ticks

InitTimer == InitOf({4})

NextTimer ==
    \/ \E id \in pendingLoads : LoadRoutineResolve(RoutineStore[id])
    \/ timerTick
    \/ handleTimerStart
    \/ handleTimerPause
    \/ handleTimerReset
    \/ \E value \in {<<"0">>, <<"8">>} : handleSetFieldChange(1, 1, "reps", value)
    \/ handleAddSet(1)
    \/ handleRemoveSet(1, 1)
    \/ handleSubmit
    \/ createWorkoutResolve
    \/ createWorkoutReject(NoMessage)

SpecTimer == InitTimer /\ [][NextTimer]_vars

----
\* Properties of the validation workflow

\* the local date and time of text a come before those of text b
EarlierText(a, b) ==
    \/ a.day < b.day
    \/ a.day = b.day /\ a.hour < b.hour
    \/ a.day = b.day /\ a.hour = b.hour /\ a.minute < b.minute

AllFormSets(form) ==
    UNION {{form.exercises[e].sets[k] : k \in 1..Len(form.exercises[e].sets)} :
            e \in 1..Len(form.exercises)}

IsFiniteText(text) == Number(text).kind = "finite"

\* every check of the submission passes on the form
EveryCheckPasses(form) ==
    /\ form.routine # NullRoutine
    /\ form.startedAt.form = "datetime"
    /\ Len(form.exercises) > 0
    /\ \E e \in 1..Len(form.exercises) : Len(form.exercises[e].sets) > 0
    /\ \A set \in AllFormSets(form) :
          /\ IsFiniteText(set.reps) /\ Number(set.reps).milli >= Scale
          /\ set.weight = <<>> \/ IsFiniteText(set.weight)
          /\ set.restTime = <<>> \/ IsFiniteText(set.restTime)
    /\ (form.markCompleted /\ form.completedAt.form # "empty") =>
          /\ form.completedAt.form = "datetime"
          /\ ~EarlierText(form.completedAt, form.startedAt)
    /\ Trim(form.durationMinutes) # <<>> =>
          IsFiniteText(form.durationMinutes) /\ Number(form.durationMinutes).milli > 0

\* C1: a create-workout request is issued only for a form on which every validation
\* check passes (routine, start, exercises, every set's reps/weight/rest, at least
\* one set, completion date, duration); a failed check issues no request.
C1_RequestOnlyAfterEveryCheck == inFlight.pending => EveryCheckPasses(inFlight.form)

\* a submit that failed the weight check of a set: its message is shown, nothing is sent
C1_Witness ==
    /\ lastEvent.op = "submit"
    /\ formError = "El peso debe ser un número válido."
    /\ ~inFlight.pending
    /\ ~isSubmitting

\* C8 as stated: when the create request fails, the form is what it was when submit
\* was pressed.
C8_FormAsWhenSubmitted ==
    [][lastEvent'.op = "createWorkoutRejected" => FormSnapshot' = inFlight.form]_vars

\* C8 as amended: handling the failure changes no field of the form (the form is what
\* it was just before the failure, edits made while the request was pending included),
\* formError becomes the service's message or else the generic fallback, isSubmitting
\* is false again and the page has not navigated.
C8_FailureKeepsForm ==
    [][lastEvent'.op = "createWorkoutRejected" =>
        /\ formVars' = formVars
        /\ routine' = routine
        /\ formError' = IF lastEvent'.message # "" THEN lastEvent'.message
                         ELSE "No se pudo guardar el entrenamiento."
        /\ ~isSubmitting'
        /\ ~navigated']_vars

\* a failed request whose service message is shown over a form the user had filled in
C8_Witness ==
    /\ lastEvent.op = "createWorkoutRejected"
    /\ formError = ServiceMessage
    /\ ~isSubmitting
    /\ notes # <<>>
    /\ Len(exercises) > 0

\* the message of the first check a set fails: reps, then weight, then rest
FirstSetMessage(set) ==
    IF ~IsFiniteText(set.reps) \/ Number(set.reps).milli < Scale
    THEN "Cada serie debe tener al menos 1 repetición."
    ELSE IF set.weight # <<>> /\ ~IsFiniteText(set.weight)
    THEN "El peso debe ser un número válido."
    ELSE IF set.restTime # <<>> /\ ~IsFiniteText(set.restTime)
    THEN "El tiempo de descanso debe ser un número válido."
    ELSE ""

\* the message of the first step the form on screen violates ("" when it violates
\* none); the start timestamp is parsed in step 2 when parsedWithPresence, and after
\* step 5 otherwise
FirstViolatedStep(parsedWithPresence) ==
    LET all == FormSets(exercises)
        failing == {k \in 1..Len(all) : FirstSetMessage(all[k]) # ""}
        timed == markCompleted /\ completedAt.form # "empty"
    IN  IF routine = NullRoutine THEN "No se pudo identificar la rutina seleccionada."
        ELSE IF startedAt.form = "empty"
        THEN "Selecciona la fecha y hora de inicio del entrenamiento."
        ELSE IF parsedWithPresence /\ startedAt.form = "malformed"
        THEN "La fecha de inicio no es válida."
        ELSE IF Len(exercises) = 0 THEN "La rutina no tiene ejercicios configurados."
        ELSE IF failing # {}
        THEN FirstSetMessage(all[CHOOSE k \in failing : \A j \in failing : k <= j])
        ELSE IF Len(all) = 0
        THEN "Registra al menos una serie antes de guardar el entrenamiento."
        ELSE IF startedAt.form = "malformed" THEN "La fecha de inicio no es válida."
        ELSE IF timed /\ completedAt.form = "malformed"
        THEN "La fecha de finalización no es válida."
        ELSE IF timed /\ EarlierText(completedAt, startedAt)
        THEN "La fecha de finalización no puede ser anterior al inicio."
        ELSE IF /\ Trim(durationMinutes) # <<>>
                /\ (~IsFiniteText(durationMinutes) \/ Number(durationMinutes).milli <= 0)
        THEN "La duración debe ser un número positivo en minutos."
        ELSE ""

\* C14 as stated: a submission shows the message of the earliest violated step of
\* (1) routine loaded, (2) start present and a valid date, (3) exercises not empty,
\* (4) per-set reps/weight/rest in flattened order, (5) at least one set,
\* (6) completion valid and not before the start, (7) duration valid; an unparseable
\* start is reported before any per-set error.
C14_SpecifiedOrder == lastEvent.op = "submit" => formError = FirstViolatedStep(TRUE)

\* C14 as amended: the checks run in the order (1) routine loaded, (2) start present,
\* (3) exercises not empty, (4) per-set reps, weight, rest in flattened order, (5) at
\* least one set, (6) start parses as a date, (7) completion valid and not before the
\* start, (8) duration valid, and stop at the first failure: the message shown is that
\* of the earliest violated step and no request is issued; a form that violates none
\* issues the request.
C14_FirstViolatedStep ==
    lastEvent.op = "submit" =>
        /\ formError = FirstViolatedStep(FALSE)
        /\ inFlight.pending <=> FirstViolatedStep(FALSE) = ""

\* a submit of a form whose start does not parse, whose only set has reps "0" and a
\* weight that is no number, and whose duration is "0": the reps message is shown
C14_Witness ==
    /\ lastEvent.op = "submit"
    /\ startedAt = MalformedDateText
    /\ Len(exercises) > 0
    /\ Len(exercises[1].sets) > 0
    /\ exercises[1].sets[1].reps = <<"0">>
    /\ exercises[1].sets[1].weight = <<"a", "b", "c">>
    /\ durationMinutes = <<"0">>
    /\ formError = "Cada serie debe tener al menos 1 repetición."

\* C22: a submit that passes validation issues one create request, that of the form
\* it read; a request is issued by a submit only; when the request fails none is
\* pending until a new submit (no automatic retry), and when it succeeds the page
\* navigates away and no request is issued afterwards.
C22_OneRequestPerSubmit ==
    [][/\ lastEvent'.op = "submit" =>
            IF EveryCheckPasses(FormSnapshot)
            THEN inFlight' = [pending |-> TRUE, payload |-> inFlight'.payload,
                              form |-> FormSnapshot]
            ELSE inFlight' = inFlight
       /\ lastEvent'.op # "submit" => (inFlight'.pending => inFlight' = inFlight)
       /\ lastEvent'.op = "createWorkoutRejected" => ~inFlight'.pending /\ ~navigated'
       /\ lastEvent'.op = "createWorkoutResolved" => ~inFlight'.pending /\ navigated'
       /\ navigated => ~inFlight'.pending /\ navigated']_vars

\* a request just failed without a message of the service: nothing is pending, the
\* page has not navigated and the submit button is enabled again
C22_Witness ==
    /\ lastEvent.op = "createWorkoutRejected"
    /\ lastEvent.message = NoMessage
    /\ formError = CreateWorkoutFallbackMessage
    /\ ~inFlight.pending
    /\ ~isSubmitting
    /\ ~navigated

\* C27: at most one create request is in flight: isSubmitting is true for as long as a
\* request is pending, no submit runs while one is pending, and the pending request
\* stays the one that was sent until it settles.
C27_OneRequestInFlight ==
    /\ [](inFlight.pending => isSubmitting)
    /\ [][inFlight.pending =>
            /\ lastEvent'.op # "submit"
            /\ inFlight'.pending => inFlight' = inFlight]_vars

\* a field was edited while the request was pending
C27_Witness ==
    /\ inFlight.pending
    /\ isSubmitting
    /\ lastEvent.op \in {"setFieldChange", "setNotes", "setDurationMinutes"}
    /\ FormSnapshot # inFlight.form

----
\* Properties of set editing

\* C9 as stated: once a routine has been materialized every exercise of the form has
\* at least one set.
C9_EveryExerciseHasASet ==
    routine # NullRoutine => \A e \in 1..Len(exercises) : Len(exercises[e].sets) >= 1

\* C9 as amended: every exercise materialized from a routine entry that plans at least
\* one set has at least one set after any sequence of edit-field, add-set and remove-set
\* (an entry that plans no set materializes without sets); no edit-field, add-set or
\* remove-set empties an exercise, and remove-set on an exercise with exactly one set
\* leaves the form unchanged.
C9_PlannedExercisesKeepASet ==
    /\ [](routine # NullRoutine =>
            \A e \in 1..Len(exercises) :
                routine.exercises[e].sets >= 1 => Len(exercises[e].sets) >= 1)
    /\ [][lastEvent'.op \in {"setFieldChange", "addSet", "removeSet"} =>
            /\ Len(exercises') = Len(exercises)
            /\ \A e \in 1..Len(exercises) :
                    Len(exercises[e].sets) >= 1 => Len(exercises'[e].sets) >= 1
            /\ (/\ lastEvent'.op = "removeSet"
                /\ lastEvent'.exerciseIndex \in 1..Len(exercises)
                /\ Len(exercises[lastEvent'.exerciseIndex].sets) = 1)
                   => exercises' = exercises]_vars

\* remove-set was just asked of an exercise that has exactly one set
C9_Witness ==
    /\ lastEvent.op = "removeSet"
    /\ lastEvent.exerciseIndex \in 1..Len(exercises)
    /\ Len(exercises[lastEvent.exerciseIndex].sets) = 1
    /\ exercises[lastEvent.exerciseIndex].sets[1].weight # <<>>

\* C10: add-set on an exercise that has sets appends exactly one set, at the end, whose
\* reps, technique and restTime are those of the previously last set (edits included)
\* and whose weight is empty; the existing sets keep their values and order.
C10_AddSetClonesLast ==
    [][(/\ lastEvent'.op = "addSet"
        /\ lastEvent'.exerciseIndex \in 1..Len(exercises)
        /\ Len(exercises[lastEvent'.exerciseIndex].sets) > 0) =>
            LET e == lastEvent'.exerciseIndex
                old == exercises[e].sets
                new == exercises'[e].sets
            IN  /\ Len(new) = Len(old) + 1
                /\ \A k \in 1..Len(old) : new[k] = old[k]
                /\ new[Len(new)].reps = old[Len(old)].reps
                /\ new[Len(new)].technique = old[Len(old)].technique
                /\ new[Len(new)].restTime = old[Len(old)].restTime
                /\ new[Len(new)].weight = <<>>]_vars

\* a set was just added after a last set whose weight, reps, technique and rest time
\* had all been edited
C10_Witness ==
    /\ lastEvent.op = "addSet"
    /\ lastEvent.exerciseIndex \in 1..Len(exercises)
    /\ LET sets == exercises[lastEvent.exerciseIndex].sets IN
        /\ Len(sets) >= 2
        /\ sets[Len(sets) - 1] = [weight |-> <<"8", "0">>, reps |-> <<>>,
                                   technique |-> "myo-reps", restTime |-> <<>>]
        /\ sets[Len(sets)] = [weight |-> <<>>, reps |-> <<>>,
                               technique |-> "myo-reps", restTime |-> <<>>]

----
\* Properties of the submitted sets

\* the texts of the form's sets, in the order of the payload's sets
SubmittedSetTexts == FormSets(inFlight.form.exercises)

IsInteger(n) == n.kind = "finite" /\ n.milli % Scale = 0

\* n is the integer nearest to the number v (halves go up)
IsNearestInteger(n, v) ==
    /\ IsInteger(n)
    /\ v.kind = "finite"
    /\ 2 * (n.milli - v.milli) <= Scale
    /\ 2 * (v.milli - n.milli) < Scale

\* C2: every set of every payload passed to createWorkout has reps an integer >= 1:
\* the value its reps text parses to, rounded to the nearest integer ("5" and "5.0"
\* give 5); a reps text that does not parse to a finite number >= 1 ("0", "-1",
\* "abc", empty) rejects the whole submission.
C2_RepsPositiveInteger ==
    inFlight.pending =>
        /\ Len(inFlight.payload.sets) = Len(SubmittedSetTexts)
        /\ \A k \in 1..Len(inFlight.payload.sets) :
            LET reps == inFlight.payload.sets[k].reps
                text == SubmittedSetTexts[k].reps
            IN  /\ IsInteger(reps)
                /\ reps.milli >= Scale
                /\ IsNearestInteger(reps, Number(text))
                /\ Number(text).milli >= Scale
                /\ text \notin {<<"0">>, <<"-", "1">>, <<"a", "b", "c">>, <<>>}
                /\ text \in {<<"5">>, <<"5", ".", "0">>} => reps = Int2Num(5)

\* a request whose sets were typed as "5.0" and "1.5" carries reps 5 and 2
C2_Witness ==
    /\ inFlight.pending
    /\ Len(inFlight.payload.sets) = 2
    /\ SubmittedSetTexts[1].reps = <<"5", ".", "0">>
    /\ inFlight.payload.sets[1].reps = Int2Num(5)
    /\ SubmittedSetTexts[2].reps = <<"1", ".", "5">>
    /\ inFlight.payload.sets[2].reps = Int2Num(2)

\* C3: in every payload passed to createWorkout the weight of a set, when present, is
\* a finite number that is not negative.
C3_WeightNonNegative ==
    inFlight.pending =>
        \A k \in 1..Len(inFlight.payload.sets) :
            LET weight == inFlight.payload.sets[k].weight IN
            weight = Undefined \/ (weight.kind = "finite" /\ weight.milli >= 0)

\* C4: in every payload passed to createWorkout the restTime of a set, when present,
\* is an integer number of seconds that is not negative.
C4_RestNonNegativeInteger ==
    inFlight.pending =>
        \A k \in 1..Len(inFlight.payload.sets) :
            LET rest == inFlight.payload.sets[k].restTime IN
            rest = Undefined \/ (IsInteger(rest) /\ rest.milli >= 0)

----
\* Properties of the session times

\* C5: in every payload passed to createWorkout the duration, when present, is a
\* positive integer number of seconds (>= 1), whether it comes from the minutes typed
\* or from the time between start and completion.
C5_DurationPositiveInteger ==
    inFlight.pending =>
        LET duration == inFlight.payload.duration IN
        duration = Undefined \/ (IsInteger(duration) /\ duration.milli >= Scale)

\* the instant of ISO text a comes before that of ISO text b
EarlierISO(a, b) ==
    \/ a.day < b.day
    \/ a.day = b.day /\ a.hour < b.hour
    \/ a.day = b.day /\ a.hour = b.hour /\ a.minute < b.minute
    \/ a.day = b.day /\ a.hour = b.hour /\ a.minute = b.minute /\ a.second < b.second
    \/ a.day = b.day /\ a.hour = b.hour /\ a.minute = b.minute /\ a.second = b.second
       /\ a.millisecond < b.millisecond

\* C6: a submission whose completion timestamp is strictly earlier than its start
\* timestamp is rejected: a payload passed to createWorkout that carries completedAt
\* has completedAt >= startedAt.
C6_CompletionNotBeforeStart ==
    inFlight.pending =>
        /\ inFlight.payload.startedAt.defined
        /\ inFlight.payload.completedAt.defined =>
                ~EarlierISO(inFlight.payload.completedAt, inFlight.payload.startedAt)
        /\ (inFlight.form.markCompleted /\ inFlight.form.completedAt.form = "datetime") =>
                /\ inFlight.payload.completedAt.defined
                /\ ~EarlierText(inFlight.form.completedAt, inFlight.form.startedAt)

\* a submit with completion 09:30 and start 10:00 was just refused
C6_Witness ==
    /\ lastEvent.op = "submit"
    /\ markCompleted
    /\ startedAt = DateText(0, 10, 0)
    /\ completedAt = DateText(0, 9, 30)
    /\ formError = "La fecha de finalización no puede ser anterior al inicio."
    /\ ~inFlight.pending

\* seconds from local text a to local text b
SecondsBetween(a, b) ==
    (((b.day - a.day) * 24 + (b.hour - a.hour)) * 60 + (b.minute - a.minute)) * 60

\* C7: the duration of the payload is, in this order: round(minutes * 60) when the
\* minutes field is not blank, even with a completion timestamp; else, when marked
\* completed with a completion timestamp, the seconds from start to completion if
\* strictly positive; else unset.  Start 10:00 and completion 10:45 give 2700 without
\* minutes and 1800 with minutes "30".
C7_DurationPriority ==
    inFlight.pending =>
        LET form == inFlight.form
            duration == inFlight.payload.duration
            between == SecondsBetween(form.startedAt, form.completedAt)
            timed == form.markCompleted /\ form.completedAt.form # "empty"
        IN  /\ Trim(form.durationMinutes) # <<>> =>
                /\ IsInteger(duration)
                /\ 2 * (duration.milli - 60 * Number(form.durationMinutes).milli) <= Scale
                /\ 2 * (60 * Number(form.durationMinutes).milli - duration.milli) < Scale
            /\ (Trim(form.durationMinutes) = <<>> /\ timed) =>
                duration = IF between > 0 THEN Int2Num(between) ELSE Undefined
            /\ (Trim(form.durationMinutes) = <<>> /\ ~timed) => duration = Undefined
            /\ (/\ timed
                /\ form.startedAt = DateText(0, 10, 0)
                /\ form.completedAt = DateText(0, 10, 45)) =>
                    /\ form.durationMinutes = <<>> => duration = Int2Num(2700)
                    /\ form.durationMinutes = <<"3", "0">> => duration = Int2Num(1800)

\* a request from start 10:00, completion 10:45 and minutes "30": duration 1800
C7_Witness ==
    /\ inFlight.pending
    /\ inFlight.form.markCompleted
    /\ inFlight.form.startedAt = DateText(0, 10, 0)
    /\ inFlight.form.completedAt = DateText(0, 10, 45)
    /\ inFlight.form.durationMinutes = <<"3", "0">>
    /\ inFlight.payload.completedAt.defined
    /\ inFlight.payload.duration = Int2Num(1800)

----
\* Properties of materialization

\* a value of the routine that is neither null nor undefined
IsPresent(n) == n.kind \notin {"undefined", "null"}

\* text is the plain decimal writing of the integer n: digits with no sign, space or
\* leading zero
IsDecimalTextOf(text, n) ==
    /\ text # <<>>
    /\ AllDigits(text)
    /\ Len(text) = 1 \/ Head(text) # "0"
    /\ Number(text) = n

\* the default reps the claims give a routine exercise: the minimum if present, else
\* the maximum if present, else 10
DefaultReps(planned) ==
    IF IsPresent(planned.repRangeMin) THEN planned.repRangeMin
    ELSE IF IsPresent(planned.repRangeMax) THEN planned.repRangeMax
    ELSE Int2Num(10)

\* set is the default set of the routine exercise planned
IsDefaultSet(set, planned) ==
    /\ set.weight = <<>>
    /\ IsDecimalTextOf(set.reps, DefaultReps(planned))
    /\ set.technique = planned.technique
    /\ IF IsPresent(planned.restTime) THEN IsDecimalTextOf(set.restTime, planned.restTime)
       ELSE set.restTime = <<>>

RECURSIVE SumOfSets(_)
SumOfSets(planned) ==
    IF planned = <<>> THEN 0 ELSE Head(planned).sets + SumOfSets(Tail(planned))

\* every exercise that plans a set has default reps of at least 1
DefaultsAccepted(planned) ==
    \A e \in 1..Len(planned) : planned[e].sets >= 1 => DefaultReps(planned[e]).milli >= Scale

\* the submit that ran last saw the form as materialized from a routine with at least
\* one exercise, a valid start and no completion mark
UneditedSubmit ==
    /\ lastEvent.op = "submit"
    /\ routine # NullRoutine
    /\ Len(routine.exercises) >= 1
    /\ startedAt.form = "datetime"
    /\ ~markCompleted

\* C12 as stated: for every routine with at least one exercise, submitting the form as
\* materialized (valid start, not marked completed) issues a create request whose set
\* list is as long as the sum of the exercises' planned sets.
C12_UneditedRequestHasEverySet ==
    UneditedSubmit =>
        /\ inFlight.pending
        /\ Len(inFlight.payload.sets) = SumOfSets(routine.exercises)

\* C12 as amended: such a submission issues a create request exactly when the planned
\* sets sum to at least 1 and every exercise that plans a set has default reps >= 1;
\* the request then has as many sets as the sum of the planned sets, those of each
\* exercise numbered 1..sets with the default reps and the routine's technique (3 sets,
\* range 8-12, normal: sets 1, 2, 3 with reps 8, normal).  Otherwise no request is
\* issued and the form shows the reps message or, when no set is planned at all, the
\* message asking for at least one set.
C12_UneditedSubmission ==
    UneditedSubmit =>
        LET planned == routine.exercises IN
        IF SumOfSets(planned) >= 1 /\ DefaultsAccepted(planned)
        THEN /\ inFlight.pending
             /\ Len(inFlight.payload.sets) = SumOfSets(planned)
             /\ \A e \in 1..Len(planned) : \A i \in 1..planned[e].sets :
                    LET sent == inFlight.payload.sets[SumOfSets(SubSeq(planned, 1, e - 1)) + i]
                    IN  /\ sent.exerciseId = planned[e].exerciseId
                        /\ sent.setNumber = i
                        /\ sent.reps = DefaultReps(planned[e])
                        /\ sent.technique = planned[e].technique
             /\ planned = <<Deadlift>> =>
                    /\ Len(inFlight.payload.sets) = 3
                    /\ \A i \in 1..3 :
                        /\ inFlight.payload.sets[i].setNumber = i
                        /\ inFlight.payload.sets[i].reps = Int2Num(8)
                        /\ inFlight.payload.sets[i].technique = "normal"
        ELSE /\ ~inFlight.pending
             /\ formError = IF ~DefaultsAccepted(planned)
                             THEN "Cada serie debe tener al menos 1 repetición."
                             ELSE "Registra al menos una serie antes de guardar el entrenamiento."

\* the routine of one exercise with 3 sets, 8-12, normal was just submitted unedited
C12_Witness ==
    /\ UneditedSubmit
    /\ routine.exercises = <<Deadlift>>
    /\ inFlight.pending
    /\ Len(inFlight.payload.sets) = 3

----
\* Properties of flattening

\* the sets of the exercises of form before exercise e
RECURSIVE SetsBefore(_, _)
SetsBefore(form, e) == IF e <= 1 THEN 0 ELSE SetsBefore(form, e - 1) + Len(form[e - 1].sets)

\* C13: the set list of a payload is the sets of the form's exercises, exercise after
\* exercise in form order and set after set in array order; the sets of an exercise
\* with n sets carry setNumber 1, 2, ..., n, so the numbers of an exercise id are
\* 1..n without gap or repeat, whatever sets were added or removed before.
C13_FlattenedInOrder ==
    inFlight.pending =>
        LET form == inFlight.form.exercises
            sent == inFlight.payload.sets
        IN  /\ Len(sent) = SetsBefore(form, Len(form) + 1)
            /\ \A e \in 1..Len(form) : \A i \in 1..Len(form[e].sets) :
                LET s == sent[SetsBefore(form, e) + i]
                    set == form[e].sets[i]
                IN  /\ s.exerciseId = form[e].exerciseId
                    /\ s.exerciseName = form[e].exerciseName
                    /\ s.setNumber = i
                    /\ s.weight = IF set.weight = <<>> THEN Undefined ELSE Number(set.weight)
                    /\ s.technique = set.technique
            /\ \A e \in 1..Len(form) :
                LET ofExercise == {k \in 1..Len(sent) : sent[k].exerciseId = form[e].exerciseId}
                IN  /\ {sent[k].setNumber : k \in ofExercise} = 1..Len(form[e].sets)
                    /\ Cardinality(ofExercise) = Len(form[e].sets)

\* a request from the routine that plans 2 + 1 sets after the first exercise lost its
\* first set: its remaining set, the one given no weight, is sent as set 1
C13_Witness ==
    /\ inFlight.pending
    /\ inFlight.form.routine.id = 8
    /\ Len(inFlight.form.exercises[1].sets) = 1
    /\ Len(inFlight.payload.sets) = 2
    /\ inFlight.payload.sets[1].setNumber = 1
    /\ inFlight.payload.sets[1].weight = Undefined
    /\ inFlight.payload.sets[2].setNumber = 1
    /\ inFlight.payload.sets[2].weight = Int2Num(80)

----
\* Properties of the workout detail page

\* weight * reps in thousandths, 0 for a set without weight
VolumeMilli(set) ==
    IF set.weight.kind = "finite" THEN (set.weight.milli * set.reps.milli) \div Scale ELSE 0

RECURSIVE SumVolumeMilli(_)
SumVolumeMilli(sets) ==
    IF sets = <<>> THEN 0 ELSE VolumeMilli(Head(sets)) + SumVolumeMilli(Tail(sets))

ElapsedMs(a, b) ==
    ((((b.day - a.day) * 24 + (b.hour - a.hour)) * 60 + (b.minute - a.minute)) * 60
        + (b.second - a.second)) * 1000 + (b.millisecond - a.millisecond)

\* C16: the duration shown for a workout is the stored duration whenever one is stored,
\* never a recomputed one; otherwise, when completedAt exists and is not earlier than
\* startedAt, the seconds between them rounded to the nearest integer (0 when they are
\* equal); otherwise undefined.
C16_DurationForDisplay ==
    workout # NullWorkout =>
        IF workout.duration.kind = "finite" THEN durationInSeconds = workout.duration
        ELSE IF /\ workout.completedAt.defined
                /\ ~EarlierISO(workout.completedAt, workout.startedAt)
        THEN /\ IsNearestInteger(durationInSeconds,
                                 Finite(ElapsedMs(workout.startedAt, workout.completedAt)))
             /\ workout.completedAt = workout.startedAt => durationInSeconds = Finite(0)
        ELSE durationInSeconds = Undefined

\* a workout that stores 1800 seconds although its timestamps are 2715.5 seconds apart
C16_Witness ==
    /\ workout # NullWorkout
    /\ workout.duration = Int2Num(1800)
    /\ workout.completedAt = ISOText(0, 15, 45, 30, 500)
    /\ durationInSeconds = Int2Num(1800)

\* the position at which exercise id first appears in sets
FirstIndexOf(sets, exerciseId) ==
    CHOOSE k \in 1..Len(sets) :
        /\ sets[k].exerciseId = exerciseId
        /\ \A j \in 1..(k - 1) : sets[j].exerciseId # exerciseId

\* C17: the groups shown for a workout are one per distinct exercise id of its set
\* list, in the order in which the ids first appear; each group holds exactly the
\* sets of its exercise, each once, in ascending setNumber; [A#2, B#1, A#1] gives
\* A: [1, 2], B: [1].
C17_GroupedAndSorted ==
    workout # NullWorkout =>
        LET sets == workout.sets
            groups == setsByExercise
        IN  /\ Len(groups) = Cardinality({sets[k].exerciseId : k \in 1..Len(sets)})
            /\ \A g \in 1..Len(groups) :
                LET shown == groups[g].sets
                    ofExercise == {k \in 1..Len(sets) : sets[k].exerciseId = shown[1].exerciseId}
                IN  /\ Len(shown) >= 1
                    /\ {shown[k] : k \in 1..Len(shown)} = {sets[k] : k \in ofExercise}
                    /\ Len(shown) = Cardinality(ofExercise)
                    /\ \A i, j \in 1..Len(shown) :
                            i < j => shown[i].setNumber <= shown[j].setNumber
                    /\ \A h \in 1..Len(groups) :
                            g < h => FirstIndexOf(sets, shown[1].exerciseId)
                                        < FirstIndexOf(sets, groups[h].sets[1].exerciseId)
            /\ <<[k \in 1..Len(sets) |-> <<sets[k].exerciseId, sets[k].setNumber>>]>>
                    = <<(<< <<11, 2>>, <<12, 1>>, <<11, 1>> >>)>> =>
                /\ Len(groups) = 2
                /\ [k \in 1..2 |-> groups[1].sets[k].setNumber] = <<1, 2>>
                /\ [k \in 1..1 |-> groups[2].sets[k].setNumber] = <<1>>
                /\ groups[1].exerciseName = "Sentadilla"
                /\ groups[2].exerciseName = "Press banca"

\* the workout whose sets are A#2, B#1, A#1 is shown as A: [1, 2] and B: [1]
C17_Witness ==
    /\ workout # NullWorkout
    /\ Len(workout.sets) = 3
    /\ [k \in 1..3 |-> <<workout.sets[k].exerciseId, workout.sets[k].setNumber>>]
            = << <<11, 2>>, <<12, 1>>, <<11, 1>> >>
    /\ Len(setsByExercise) = 2
    /\ setsByExercise[1].sets = <<workout.sets[3], workout.sets[1]>>
    /\ setsByExercise[2].sets = <<workout.sets[2]>>

----
\* Properties of the target range and of the edits

\* the label the claim gives a routine exercise, by the bounds that exist
LabelByExistingBounds(planned) ==
    LET min == planned.repRangeMin
        max == planned.repRangeMax
    IN  IF IsPresent(min) /\ IsPresent(max)
        THEN IF min = max THEN String(min) \o RepeticionesText
             ELSE String(min) \o <<"-">> \o String(max) \o RepeticionesText
        ELSE IF IsPresent(min) THEN <<">=", " ">> \o String(min) \o RepeticionesText
        ELSE IF IsPresent(max) THEN <<"<=", " ">> \o String(max) \o RepeticionesText
        ELSE UndefinedText

\* C18: the target-range label of an exercise is the range form when both bounds exist
\* and differ, the single-number form when both exist and are equal, the lower-bound
\* form when only the minimum exists, the upper-bound form when only the maximum
\* exists, and absent when neither exists; a bound of 0 exists.
C18_LabelByExistingBounds ==
    lastEvent.op = "loadRoutineResolved" =>
        \A e \in 1..Len(exercises) :
            exercises[e].targetRange = LabelByExistingBounds(routine.exercises[e])

\* C19: add-set on an exercise without sets appends one set with the defaults that
\* materialization gives the exercise: reps of repRangeMin if present, else of
\* repRangeMax if present, else 10; the routine's technique and rest time; no weight.
C19_AddSetToEmptyUsesDefaults ==
    [][(/\ lastEvent'.op = "addSet"
        /\ lastEvent'.exerciseIndex \in 1..Len(exercises)
        /\ exercises[lastEvent'.exerciseIndex].sets = <<>>) =>
            LET e == lastEvent'.exerciseIndex IN
            /\ Len(exercises'[e].sets) = 1
            /\ IsDefaultSet(exercises'[e].sets[1], routine.exercises[e])]_vars

SetFieldNames == {"weight", "reps", "technique", "restTime"}

----
\* Properties of the rest timer

TimerOps == {"timerTick", "timerStart", "timerPause", "timerReset"}

\* C21: a tick happens only while the timer runs and adds exactly 1 to timerSeconds,
\* changing nothing else; start, pause and reset change only isTimerRunning and
\* timerSeconds (start runs the timer, pause stops it keeping the seconds, reset stops
\* it at 0); every other event (load, edit, add-set, remove-set, submit whether it
\* passes validation or not, the response of the request) leaves both as they are.
C21_TimerIndependent ==
    [][/\ lastEvent'.op = "timerTick" =>
            /\ isTimerRunning /\ isTimerRunning'
            /\ timerSeconds' = timerSeconds + 1
       /\ lastEvent'.op = "timerStart" => isTimerRunning' /\ timerSeconds' = timerSeconds
       /\ lastEvent'.op = "timerPause" => ~isTimerRunning' /\ timerSeconds' = timerSeconds
       /\ lastEvent'.op = "timerReset" => ~isTimerRunning' /\ timerSeconds' = 0
       /\ lastEvent'.op \in TimerOps =>
            <<loadVars, formVars, submitVars>>' = <<loadVars, formVars, submitVars>>
       /\ lastEvent'.op \notin TimerOps => timerVars' = timerVars]_vars

\* the timer was just paused at 2 seconds, next to a form showing a validation error
C21_Witness ==
    /\ lastEvent.op = "timerPause"
    /\ timerSeconds = 2
    /\ ~isTimerRunning
    /\ formError = "Cada serie debe tener al menos 1 repetición."

----
\* Properties of what the pages show after a failed load

\* C23: whenever the error of a failed routine or workout load is on screen, no
\* routine or workout content is on screen with it.
C23_ErrorShownAlone ==
    /\ RoutineErrorShown => ~FormRendered
    /\ DetailErrorShown => ~DetailContentShown

----
\* Properties of the routine form

\* an exercise of a request is well formed: at least one set, and a range with both
\* bounds has them in order
WellFormedExercise(e) ==
    /\ e.sets.kind = "finite" /\ e.sets.milli >= Scale
    /\ (e.repRangeMin # Undefined /\ e.repRangeMax # Undefined) =>
            /\ e.repRangeMin.kind = "finite"
            /\ e.repRangeMax.kind = "finite"
            /\ e.repRangeMin.milli <= e.repRangeMax.milli

\* the request carries the entries of the list in their order, numbered from 1
CarriesTheList(payload, list) ==
    /\ Len(payload.exercises) = Len(list)
    /\ \A i \in DOMAIN list :
            /\ payload.exercises[i].exerciseId = list[i].exerciseId
            /\ payload.exercises[i].orderInRoutine = i

WellFormedRoutine(payload) ==
    /\ Len(payload.exercises) >= 1
    /\ \A i \in DOMAIN payload.exercises : WellFormedExercise(payload.exercises[i])

\* C24: every create or update request of the routine form has at least one
\* exercise, sets >= 1 in every exercise, min <= max wherever both are present and
\* orderInRoutine 1..n in the order of the list; a submit of a list that is not so
\* sets an error and issues no request.
C24_RoutineRequestWellFormed ==
    [][lastEvent'.op = "routineSubmit" =>
            IF routineRequest'.pending
            THEN /\ ~routineRequest.pending
                 /\ WellFormedRoutine(routineRequest'.payload)
                 /\ CarriesTheList(routineRequest'.payload, routineExercises)
                 /\ routineError' = ""
            ELSE /\ routineError' # ""
                 /\ routineRequest' = routineRequest
                 /\ \/ ~Truthy(Trim(formData.name))
                    \/ ~WellFormedRoutine(RoutinePayload)]_vars

\* a request was issued for a list of two entries, the stored one moved to the top
\* after its stored sets of 0 were edited
C24_Witness ==
    /\ lastEvent.op = "routineSubmit"
    /\ routineRequest.pending
    /\ Len(routineRequest.payload.exercises) = 2
    /\ routineRequest.payload.exercises[1].exerciseId = 22
    /\ routineRequest.payload.exercises[1].sets = Int2Num(1)
    /\ routineRequest.payload.exercises[1].orderInRoutine = 1

\* the entries of a and of b are the same, each as many times
SameEntries(a, b) ==
    /\ Len(a) = Len(b)
    /\ \A i \in DOMAIN a :
            Cardinality({k \in DOMAIN a : a[k] = a[i]}) =
            Cardinality({k \in DOMAIN b : b[k] = a[i]})

\* C30: the exercise ids of the list stay pairwise distinct under add, remove and
\* move; adding an exercise that is in the list changes nothing; a move swaps the
\* entry with its neighbour and keeps the entries, and the first entry moved up or
\* the last moved down leaves the list as it is.
C30_ListKeepsDistinctIds ==
    /\ [](\A i, k \in DOMAIN routineExercises :
            routineExercises[i].exerciseId = routineExercises[k].exerciseId => i = k)
    /\ [][LET index == lastEvent'.exerciseIndex
               neighbour == IF lastEvent'.message = "up" THEN index - 1 ELSE index + 1
           IN  /\ lastEvent'.op = "addExercise" =>
                    (index \in addedExerciseIds => routineExercises' = routineExercises)
               /\ lastEvent'.op = "moveExercise" =>
                    /\ SameEntries(routineExercises', routineExercises)
                    /\ IF neighbour \in DOMAIN routineExercises
                       THEN routineExercises' =
                                [routineExercises EXCEPT
                                    ![index] = routineExercises[neighbour],
                                    ![neighbour] = routineExercises[index]]
                       ELSE routineExercises' = routineExercises]_vars

\* the middle entry of a list of three was moved down: the stored order 23, 21, 22
\* became 23, 22, 21
C30_Witness ==
    /\ lastEvent.op = "moveExercise"
    /\ lastEvent.exerciseIndex = 2
    /\ lastEvent.message = "down"
    /\ Len(routineExercises) = 3
    /\ routineExercises[1].exerciseId = 23
    /\ routineExercises[2].exerciseId = 22
    /\ routineExercises[3].exerciseId = 21

----
\* Properties of loads that overlap

\* C28: once every outstanding load has settled, the routine and the form on screen
\* are those of the routineId requested last: a response for an earlier id neither
\* replaces them nor clears the error of the later load.
C28_LatestRoutineWins ==
    (pendingLoads = {} /\ routineId # 0 /\ error = "") =>
        /\ routine = RoutineStore[routineId]
        /\ exercises = MaterializeExercises(RoutineStore[routineId])

----
\* Properties of the auth provider

\* C29: whenever the provider has a user, the auth service holds a token.
C29_UserHasToken == user # NullUser => storedToken # ""

----
\* Properties of the notes

\* no character of text is other than white space
IsBlank(text) == \A i \in DOMAIN text : text[i] \in {" ", "\t", "\n"}

\* sent is text without the white space at its two ends
IsTrimmed(sent, text) ==
    /\ sent # <<>>
    /\ ~IsBlank(<<Head(sent)>>)
    /\ ~IsBlank(<<sent[Len(sent)]>>)
    /\ \E i, k \in DOMAIN text :
            /\ sent = SubSeq(text, i, k)
            /\ IsBlank(SubSeq(text, 1, i - 1))
            /\ IsBlank(SubSeq(text, k + 1, Len(text)))

\* C25: the notes of a submitted payload are the trimmed text of the notes field,
\* and are unset, never an empty or blank text, when the field is empty or blank.
C25_NotesTrimmedOrUnset ==
    inFlight.pending =>
        IF IsBlank(inFlight.form.notes)
        THEN inFlight.payload.notes = UndefinedText
        ELSE IsTrimmed(inFlight.payload.notes, inFlight.form.notes)

\* notes of white space only were submitted: the request has no notes
C25_Witness ==
    /\ inFlight.pending
    /\ inFlight.form.notes = <<"\n", " ", "\t">>
    /\ inFlight.payload.notes = UndefinedText

----
\* Properties of the completion mark

\* C26: while the workout is not marked completed the completion field is empty:
\* un-marking clears it, and marking fills it with the current time only when it is
\* empty.  A payload carries completedAt only when the workout was marked, and a
\* workout marked completed whose completion field was cleared is submitted without
\* completedAt and without a computed duration.
C26_CompletionOnlyWhenMarked ==
    /\ [](~markCompleted => completedAt = EmptyDateText)
    /\ [](inFlight.pending =>
            /\ inFlight.payload.completedAt.defined => inFlight.form.markCompleted
            /\ (inFlight.form.markCompleted /\ inFlight.form.completedAt = EmptyDateText) =>
                    /\ ~inFlight.payload.completedAt.defined
                    /\ IsBlank(inFlight.form.durationMinutes) =>
                            inFlight.payload.duration = Undefined)
    /\ [][lastEvent'.op = "markCompleted" =>
            completedAt' = IF ~markCompleted' THEN EmptyDateText
                           ELSE IF completedAt = EmptyDateText THEN DateText(0, 10, 45)
                           ELSE completedAt]_vars

\* marked completed, the completion field cleared by hand, then submitted: the
\* request has neither completedAt nor a duration
C26_Witness ==
    /\ inFlight.pending
    /\ inFlight.form.markCompleted
    /\ inFlight.form.completedAt = EmptyDateText
    /\ inFlight.form.durationMinutes = <<>>
    /\ inFlight.payload.completedAt = UndefinedISO
    /\ inFlight.payload.duration = Undefined

====
